---------------------------- MODULE Spec2Model ----------------------------
(* A model of idf-hal: the peripherals registry (peripherals.rs), the GPIO *)
(* bank (gpio.rs), the UART initializer and its pin capture (uart.rs), the *)
(* PWM initializer (pwm.rs) and the WiFi builders and adapter lifecycle    *)
(* (wifi.rs).  The IDF driver is an external collaborator: each driver     *)
(* call answers nondeterministically and its effect on the driver is kept  *)
(* in the variables drv and uart_drv.                                      *)
EXTENDS Integers, Sequences, FiniteSets, TLC

VARIABLES
    PERIPHERALS_SINGLETON, \* peripherals.rs:40, the static registry
    take_results,          \* what each Peripherals::take() call returned, in order
    wifi_obj,              \* the client's WiFi handle: WiFiPeripherals, WiFiHardware or WiFi
    drv,                   \* the WiFi driver as the esp_wifi_* calls left it
    gpio_hw,               \* GpioHardware: pin -> is the Option slot Some
    user_pins,             \* pin -> number of pin tokens the client holds
    uart_hw,               \* UartHardware: uart0 / uart1 Option slots
    user_uart,             \* the UART port tokens the client holds
    uarts,                 \* the initialized Uart objects alive
    uart_drv,              \* UART driver: port -> committed parameters, installed buffers
    pwm,                   \* the Pwm object the client holds, if any
    pwm_drv,               \* PWM driver as the pwm_* calls left it
    draft,                 \* the builder / initializer the client is chaining calls on
    chain,                 \* history of the current chain of calls on draft
    last,                  \* the last operation: its name, result, driver calls, pre-state
    contexts               \* execution contexts inside Peripherals::take: position, value read

vars == <<PERIPHERALS_SINGLETON, take_results, wifi_obj, drv, gpio_hw, user_pins,
          uart_hw, user_uart, uarts, uart_drv, pwm, pwm_drv, draft, chain, last,
          contexts>>

registryVars == <<PERIPHERALS_SINGLETON, take_results, contexts>>
wifiVars == <<wifi_obj, drv>>
gpioVars == <<gpio_hw, user_pins>>
uartVars == <<uart_hw, user_uart, uarts, uart_drv>>
pwmVars == <<pwm, pwm_drv>>
draftVars == <<draft, chain>>

---------------------------------------------------------------------------
(* Bounds of the model *)

\* the longest chain of setter calls made on one draft
MaxCalls == 3
\* the number of Peripherals::take() calls followed
MaxTakes == 3
\* the most tokens of one pin the client is followed holding
MaxTokens == 2
\* add_channel calls followed on one PwmInitializer
MaxChannelCalls == 9

---------------------------------------------------------------------------
(* Option<T>, Result<T, E> and byte arrays *)

None == <<>>
Some(v) == <<v>>
\* Option::unwrap
Unwrap(o) == o[1]
\* Option::unwrap_or
UnwrapOr(o, default) == IF o = None THEN default ELSE o[1]

Ok(v) == [ok |-> TRUE, value |-> v]
Err(e) == [ok |-> FALSE, err |-> e]

\* a &str of n bytes, every byte c
Str(n, c) == [i \in 1..n |-> c]

\* `for (s, d) in value.iter().zip(array.iter_mut()) { *d = *s }` on [0; n]
ZipCopy(value, n) == [i \in 1..n |-> IF i <= Len(value) THEN value[i] ELSE 0]

\* ZipCopy followed by `if len < n { array[len] = b'\0' }`
ZipCopyTerminated(value, n) ==
    LET array == ZipCopy(value, n)
    IN  IF Len(value) < n THEN [array EXCEPT ![Len(value) + 1] = 0] ELSE array

---------------------------------------------------------------------------
(* wifi.rs: enums and hal_to_sys *)

WiFiAuthMode == {"OpenNetwork", "Wep", "WpaPsk", "Wpa2Psk", "WpaWpa2Psk", "Wpa2Enterprise"}

\* hal_to_sys::auth_mode; the Wep arm is unreachable!()
hal_to_sys_auth_mode(mode) ==
    CASE mode = "OpenNetwork" -> "WIFI_AUTH_OPEN"
      [] mode = "WpaPsk" -> "WIFI_AUTH_WPA_PSK"
      [] mode = "Wpa2Psk" -> "WIFI_AUTH_WPA2_PSK"
      [] mode = "WpaWpa2Psk" -> "WIFI_AUTH_WPA_WPA2_PSK"
      [] mode = "Wpa2Enterprise" -> "WIFI_AUTH_WPA2_ENTERPRISE"
      [] OTHER -> "unreachable!"

hal_to_sys_wifi_mode(mode) ==
    CASE mode = "None" -> "WIFI_MODE_NULL"
      [] mode = "Ap" -> "WIFI_MODE_AP"
      [] mode = "Sta" -> "WIFI_MODE_STA"
      [] mode = "Combined" -> "WIFI_MODE_APSTA"

hal_to_sys_scan_method(method) ==
    CASE method = "Fast" -> "WIFI_FAST_SCAN"
      [] method = "AllChannel" -> "WIFI_ALL_CHANNEL_SCAN"

hal_to_sys_sort_method(method) ==
    CASE method = "BySignal" -> "WIFI_CONNECT_AP_BY_SIGNAL"
      [] method = "BySecurity" -> "WIFI_CONNECT_AP_BY_SECURITY"

---------------------------------------------------------------------------
(* wifi.rs: WiFiScanThresholdBuilder *)

ScanThresholdNew == [rssi |-> None, auth_mode |-> None, pending_error |-> None]

ScanThresholdMinSignalStrength(self, rssi) ==
    IF rssi >= 0
    THEN [self EXCEPT !.pending_error = Some("InvalidRssi")]
    ELSE [self EXCEPT !.rssi = Some(rssi)]

ScanThresholdMinAuthMode(self, mode) == [self EXCEPT !.auth_mode = Some(mode)]

ScanThresholdBuild(self) ==
    [rssi |-> UnwrapOr(self.rssi, 0),
     authmode |-> hal_to_sys_auth_mode(UnwrapOr(self.auth_mode, "OpenNetwork"))]

---------------------------------------------------------------------------
(* wifi.rs: WiFiApConfigurationBuilder *)

ApKind == "WiFiApConfigurationBuilder"

ApNew ==
    [kind |-> ApKind,
     ssid |-> None, password |-> None, ssid_len |-> 0, channel |-> 0,
     auth_mode |-> None, ssid_hidden |-> 0, max_connections |-> 4,
     beacon_interval |-> 100, pending_error |-> None]

\* a slip: the length is stored before the length check
ApSsidStoresLenFirst(self, value) ==
    IF Len(value) > 32
    THEN [self EXCEPT !.pending_error = Some("TooLongSsid"), !.ssid_len = Len(value)]
    ELSE [self EXCEPT !.ssid = Some(ZipCopy(value, 32)), !.ssid_len = Len(value)]

\* a slip: the limit the doc comment gives (">=32 bytes") instead of `> 32`
ApSsidRejects32(self, value) ==
    IF Len(value) >= 32
    THEN [self EXCEPT !.pending_error = Some("TooLongSsid")]
    ELSE [self EXCEPT !.ssid = Some(ZipCopy(value, 32)), !.ssid_len = Len(value)]

ApSsid(self, value) ==
    IF Len(value) > 32
    THEN [self EXCEPT !.pending_error = Some("TooLongSsid")]
    ELSE [self EXCEPT !.ssid = Some(ZipCopy(value, 32)), !.ssid_len = Len(value)]

ApPassword(self, value) ==
    IF Len(value) > 64
    THEN [self EXCEPT !.pending_error = Some("TooLongPassword")]
    ELSE [self EXCEPT !.password = Some(ZipCopyTerminated(value, 64))]

ApAuthMode(self, value) ==
    IF value = "Wep"
    THEN [self EXCEPT !.pending_error = Some("AuthModeNotSupported")]
    ELSE [self EXCEPT !.auth_mode = Some(hal_to_sys_auth_mode(value))]

\* a variant: an error already pending is kept
ApChannelKeepsFirstError(self, value) ==
    IF value = 0 \/ value > 14
    THEN IF self.pending_error = None
         THEN [self EXCEPT !.pending_error = Some("InvalidWiFiChannel")]
         ELSE self
    ELSE [self EXCEPT !.channel = value]

ApChannel(self, value) ==
    IF value = 0 \/ value > 14
    THEN [self EXCEPT !.pending_error = Some("InvalidWiFiChannel")]
    ELSE [self EXCEPT !.channel = value]

ApHidden(self, value) == [self EXCEPT !.ssid_hidden = IF value THEN 1 ELSE 0]

\* a slip: an accepted value resets the pending error
ApMaxConnectionsClearsError(self, value) ==
    IF value = 0 \/ value > 4
    THEN [self EXCEPT !.pending_error = Some("InvalidMaxConnections")]
    ELSE [self EXCEPT !.max_connections = value, !.pending_error = None]

ApMaxConnections(self, value) ==
    IF value = 0 \/ value > 4
    THEN [self EXCEPT !.pending_error = Some("InvalidMaxConnections")]
    ELSE [self EXCEPT !.max_connections = value]

ApBeaconInterval(self, value) ==
    IF value < 100 \/ value > 60000
    THEN [self EXCEPT !.pending_error = Some("InvalidBeaconInterval")]
    ELSE [self EXCEPT !.beacon_interval = value]

\* a slip: the auth mode is looked at before the ssid
ApBuildChecksAuthFirst(self) ==
    IF self.pending_error /= None THEN Err(Unwrap(self.pending_error))
    ELSE IF self.auth_mode = None THEN Err("AuthModeNotSet")
    ELSE IF self.ssid = None /\ self.ssid_hidden = 0 THEN Err("SsidNotSet")
    ELSE IF self.password = None /\ Unwrap(self.auth_mode) /= "WIFI_AUTH_OPEN"
         THEN Err("PasswordNotSet")
    ELSE Ok([ap |-> [ssid |-> UnwrapOr(self.ssid, Str(32, 0))]])

\* a slip: the stored password is not copied into the configuration
ApBuildDropsPassword(self) ==
    IF self.pending_error /= None THEN Err(Unwrap(self.pending_error))
    ELSE IF self.ssid = None /\ self.ssid_hidden = 0 THEN Err("SsidNotSet")
    ELSE IF self.auth_mode = None THEN Err("AuthModeNotSet")
    ELSE IF self.password = None /\ Unwrap(self.auth_mode) /= "WIFI_AUTH_OPEN"
         THEN Err("PasswordNotSet")
    ELSE Ok([ap |-> [ssid |-> UnwrapOr(self.ssid, Str(32, 0)),
                     password |-> Str(64, 0),
                     ssid_len |-> self.ssid_len,
                     channel |-> self.channel,
                     authmode |-> Unwrap(self.auth_mode),
                     ssid_hidden |-> self.ssid_hidden,
                     max_connection |-> self.max_connections,
                     beacon_interval |-> self.beacon_interval]])

ApBuild(self) ==
    IF self.pending_error /= None THEN Err(Unwrap(self.pending_error))
    ELSE IF self.ssid = None /\ self.ssid_hidden = 0 THEN Err("SsidNotSet")
    ELSE IF self.auth_mode = None THEN Err("AuthModeNotSet")
    ELSE IF self.password = None /\ Unwrap(self.auth_mode) /= "WIFI_AUTH_OPEN"
         THEN Err("PasswordNotSet")
    ELSE Ok([ap |-> [ssid |-> UnwrapOr(self.ssid, Str(32, 0)),
                     password |-> UnwrapOr(self.password, Str(64, 0)),
                     ssid_len |-> self.ssid_len,
                     channel |-> self.channel,
                     authmode |-> Unwrap(self.auth_mode),
                     ssid_hidden |-> self.ssid_hidden,
                     max_connection |-> self.max_connections,
                     beacon_interval |-> self.beacon_interval]])

---------------------------------------------------------------------------
(* wifi.rs: WiFiStaConfigurationBuilder *)

StaKind == "WiFiStaConfigurationBuilder"

StaNew ==
    [kind |-> StaKind,
     ssid |-> None, password |-> None, scan_method |-> "WIFI_FAST_SCAN",
     bssid |-> None, channel |-> 0, listen_interval |-> 0,
     sort_method |-> "WIFI_CONNECT_AP_BY_SIGNAL", scan_threshold |-> None,
     pending_error |-> None]

StaSsid(self, value) ==
    IF Len(value) > 32
    THEN [self EXCEPT !.pending_error = Some("TooLongSsid")]
    ELSE [self EXCEPT !.ssid = Some(ZipCopyTerminated(value, 32))]

StaPassword(self, value) ==
    IF Len(value) > 64
    THEN [self EXCEPT !.pending_error = Some("TooLongPassword")]
    ELSE [self EXCEPT !.password = Some(ZipCopyTerminated(value, 64))]

StaScanMethod(self, method) ==
    [self EXCEPT !.scan_method = hal_to_sys_scan_method(method)]

StaBssid(self, value) == [self EXCEPT !.bssid = Some(value)]

StaChannel(self, value) ==
    IF value = 0 \/ value > 14
    THEN [self EXCEPT !.pending_error = Some("InvalidWiFiChannel")]
    ELSE [self EXCEPT !.channel = value]

StaListenInterval(self, interval) ==
    IF interval = 0
    THEN [self EXCEPT !.pending_error = Some("InvalidListenInterval")]
    ELSE [self EXCEPT !.listen_interval = interval]

StaSortMethod(self, method) ==
    [self EXCEPT !.sort_method = hal_to_sys_sort_method(method)]

StaScanThreshold(self, threshold) == [self EXCEPT !.scan_threshold = Some(threshold)]

\* a slip: build() does not look at the pending error (as
\* WiFiScanThresholdBuilder::build does not)
StaBuildIgnoresPending(self) ==
    IF self.ssid = None /\ self.bssid = None THEN Err("SsidNotSet")
    ELSE Ok([sta |-> [ssid |-> UnwrapOr(self.ssid, Str(32, 0))]])

\* a slip: a missing scan threshold is taken to demand a password
StaBuildRequiresPassword(self) ==
    IF self.pending_error /= None THEN Err(Unwrap(self.pending_error))
    ELSE IF self.ssid = None /\ self.bssid = None THEN Err("SsidNotSet")
    ELSE IF /\ UnwrapOr(self.scan_threshold, [authmode |-> "-"]).authmode
                   /= "WIFI_AUTH_OPEN"
            /\ self.password = None
         THEN Err("PasswordNotSet")
    ELSE Ok([sta |-> [ssid |-> UnwrapOr(self.ssid, Str(32, 0)),
                      bssid_set |-> self.bssid /= None]])

StaBuild(self) ==
    IF self.pending_error /= None THEN Err(Unwrap(self.pending_error))
    ELSE IF self.ssid = None /\ self.bssid = None THEN Err("SsidNotSet")
    ELSE IF /\ self.scan_threshold /= None
            /\ Unwrap(self.scan_threshold).authmode /= "WIFI_AUTH_OPEN"
            /\ self.password = None
         THEN Err("PasswordNotSet")
    ELSE Ok([sta |-> [ssid |-> UnwrapOr(self.ssid, Str(32, 0)),
                      password |-> UnwrapOr(self.password, Str(64, 0)),
                      scan_method |-> self.scan_method,
                      bssid_set |-> self.bssid /= None,
                      bssid |-> UnwrapOr(self.bssid, Str(6, 0)),
                      channel |-> self.channel,
                      listen_interval |-> self.listen_interval,
                      sort_method |-> self.sort_method,
                      threshold |-> UnwrapOr(self.scan_threshold,
                                        [rssi |-> 0, authmode |-> "WIFI_AUTH_OPEN"])]])

---------------------------------------------------------------------------
(* peripherals.rs: the registry *)

\* OwnedPeripherals::new
OwnedPeripheralsNew ==
    [wifi |-> [type |-> "WiFiPeripherals"], gpio |-> [type |-> "GpioPeripherals"]]

\* Peripherals::new
PeripheralsNew == [data |-> Some(OwnedPeripheralsNew)]

\* a slip: the registry hands out its content without emptying itself
PeripheralsTakeKeeps(singleton) == [result |-> singleton.data, singleton |-> singleton]

\* Peripherals::take: `PERIPHERALS_SINGLETON.data.take()`
PeripheralsTake(singleton) ==
    [result |-> singleton.data, singleton |-> [singleton EXCEPT !.data = None]]

\* Option::take on the `static mut` is mem::replace(&mut data, None) with no
\* synchronisation: a load of the old value, then a store of None
PeripheralsTakeLoad(singleton) == singleton.data

\* a slip: the store leaves the content in place
PeripheralsTakeStoreKeeps(singleton) == singleton

PeripheralsTakeStore(singleton) == [singleton EXCEPT !.data = None]

\* the execution contexts that call Peripherals::take
Contexts == {"startup", "task"}

\* a context outside take(): the results of its calls so far, each with
\* whether the call ran with no other context inside take()
IdleContext == [pc |-> "idle", loaded |-> None, alone |-> TRUE, results |-> <<>>]

---------------------------------------------------------------------------
(* wifi.rs: WiFiHardware and WiFi.  An operation is modelled by what it    *)
(* returns, the object it leaves and the driver calls it makes, given the  *)
(* answers of the driver.                                                   *)

Nothing == [type |-> "Nothing"]

\* a driver call: its name, its arguments (a tuple) and the driver's answer
DriverCall(name, args, answer) == [call |-> name, args |-> args, answer |-> answer]

\* the error enums of the adapter, as tuples: <<variant>> or <<"IdfError", code>>
Variant(name) == <<name>>
IdfError(code) == <<"IdfError", code>>

WiFiHardwareNew(peripherals) ==
    [type |-> "WiFiHardware", initialized |-> FALSE, peripherals |-> peripherals]

\* WiFi::new
WiFiNew(hardware) ==
    [type |-> "WiFi", hardware |-> hardware, ap_configuration |-> None,
     sta_configuration |-> None, started |-> FALSE]

\* a slip: initialized is set before the answer of esp_wifi_init is looked at
WiFiHardwareInitializeMarksEarly(self, init_answer) ==
    [calls |-> <<DriverCall("tcpip_adapter_init", <<>>, "-"),
                 DriverCall("esp_wifi_init", <<"WIFI_INIT_CONFIG_DEFAULT">>, init_answer)>>,
     result |-> IF init_answer /= "ESP_OK"
                THEN Err(<<IdfError(init_answer), [self EXCEPT !.initialized = TRUE]>>)
                ELSE Ok(WiFiNew([self EXCEPT !.initialized = TRUE]))]

\* WiFiHardware::initialize
WiFiHardwareInitialize(self, init_answer) ==
    [calls |-> <<DriverCall("tcpip_adapter_init", <<>>, "-"),
                 DriverCall("esp_wifi_init", <<"WIFI_INIT_CONFIG_DEFAULT">>, init_answer)>>,
     result |-> IF init_answer /= "ESP_OK"
                THEN Err(<<IdfError(init_answer), self>>)
                ELSE Ok(WiFiNew([self EXCEPT !.initialized = TRUE]))]

\* WiFiHardware::deinitialize; assert_eq!(ESP_OK, result) panics on another answer
WiFiHardwareDeinitialize(self, deinit_answer) ==
    [calls |-> IF self.initialized
               THEN <<DriverCall("esp_wifi_deinit", <<>>, deinit_answer)>>
               ELSE <<>>,
     result |-> IF self.initialized /\ deinit_answer /= "ESP_OK"
                THEN [type |-> "panic"]
                ELSE self.peripherals]

WiFiSetApConfig(self, config) == [self EXCEPT !.ap_configuration = Some(config)]

WiFiSetStaConfig(self, config) == [self EXCEPT !.sta_configuration = Some(config)]

\* a slip: esp_wifi_stop is called whether or not the adapter was started
WiFiStopUnconditional(self) ==
    [self |-> [self EXCEPT !.started = FALSE],
     calls |-> <<DriverCall("esp_wifi_stop", <<>>, "-")>>]

\* a slip: esp_wifi_stop is called but started is left set
WiFiStopKeepsStarted(self) ==
    IF self.started
    THEN [self |-> self, calls |-> <<DriverCall("esp_wifi_stop", <<>>, "-")>>]
    ELSE [self |-> self, calls |-> <<>>]

\* WiFi::stop
WiFiStop(self) ==
    IF self.started
    THEN [self |-> [self EXCEPT !.started = FALSE],
          calls |-> <<DriverCall("esp_wifi_stop", <<>>, "-")>>]
    ELSE [self |-> self, calls |-> <<>>]

\* WiFi::downgrade
WiFiDowngrade(self) ==
    [result |-> WiFiStop(self).self.hardware, self |-> WiFiStop(self).self,
     calls |-> WiFiStop(self).calls]

\* a slip: with no configuration start goes on with WiFiMode::None
StartModeDefaultsToNone(sta_is_some, ap_is_some) ==
    IF sta_is_some /\ ap_is_some THEN Some("Combined")
    ELSE IF sta_is_some THEN Some("Sta")
    ELSE IF ap_is_some THEN Some("Sta")
    ELSE Some("None")

\* the `match (sta_configuration.is_some(), ap_configuration.is_some())` of
\* WiFi::start; None is the `_` arm
StartMode(sta_is_some, ap_is_some) ==
    IF sta_is_some /\ ap_is_some THEN Some("Combined")
    ELSE IF sta_is_some THEN Some("Sta")
    ELSE IF ap_is_some THEN Some("Sta")
    ELSE None

\* set_wifi_config: the Result for an answer of esp_wifi_set_config
SetWifiConfigResult(answer) ==
    CASE answer = "ESP_OK" -> Ok("()")
      [] answer = "ESP_ERR_WIFI_PASSWORD" -> Err(Variant("InvalidWifiPassword"))
      [] answer = "ESP_ERR_WIFI_NVS" -> Err(Variant("InternalNvsError"))
      [] OTHER -> Err(IdfError(answer))

\* the `match result` on the answer of esp_wifi_start
StartResult(answer) ==
    CASE answer = "ESP_OK" -> Ok("Self")
      [] answer = "ESP_ERR_NO_MEM" -> Err(Variant("NoMemory"))
      [] answer = "ESP_ERR_INVALID_ARG" -> Err(Variant("InvalidArgument"))
      [] answer = "ESP_ERR_WIFI_CONN" -> Err(Variant("ConnectionEstablishmentFailed"))
      [] OTHER -> Err(IdfError(answer))

\* a slip: a start that the driver rejects drops the stored configurations
WiFiStartForgetsOnFailure(self, answers) ==
    IF StartMode(self.sta_configuration /= None, self.ap_configuration /= None) = None
    THEN [self |-> self, result |-> Err(Variant("ConfigurationNotSet")), calls |-> <<>>]
    ELSE IF answers.set_mode /= "ESP_OK"
    THEN [self |-> [self EXCEPT !.ap_configuration = None, !.sta_configuration = None],
          result |-> Err(IdfError(answers.set_mode)),
          calls |-> <<DriverCall("esp_wifi_set_mode", <<"WIFI_MODE_STA">>,
                                 answers.set_mode)>>]
    ELSE [self |-> [self EXCEPT !.started = TRUE], result |-> Ok("Self"),
          calls |-> <<DriverCall("esp_wifi_set_mode", <<"WIFI_MODE_STA">>, "ESP_OK"),
                      DriverCall("esp_wifi_start", <<>>, "ESP_OK")>>]

\* WiFi::start; `answers` holds the driver's answer to each call it may make
WiFiStart(self, answers) ==
    LET mode == StartMode(self.sta_configuration /= None, self.ap_configuration /= None)
        set_mode == DriverCall("esp_wifi_set_mode", <<hal_to_sys_wifi_mode(Unwrap(mode))>>,
                               answers.set_mode)
        sta == IF self.sta_configuration /= None
               THEN <<DriverCall("esp_wifi_set_config",
                                 <<"ESP_IF_WIFI_STA", Unwrap(self.sta_configuration)>>,
                                 answers.set_config_sta)>>
               ELSE <<>>
        ap == IF self.ap_configuration /= None
              THEN <<DriverCall("esp_wifi_set_config",
                                <<"ESP_IF_WIFI_AP", Unwrap(self.ap_configuration)>>,
                                answers.set_config_ap)>>
              ELSE <<>>
        start == DriverCall("esp_wifi_start", <<>>, answers.start)
    IN  IF mode = None
        THEN [self |-> self, result |-> Err(Variant("ConfigurationNotSet")), calls |-> <<>>]
        ELSE IF answers.set_mode /= "ESP_OK"
        THEN [self |-> self, result |-> Err(IdfError(answers.set_mode)),
              calls |-> <<set_mode>>]
        ELSE IF sta /= <<>> /\ ~SetWifiConfigResult(answers.set_config_sta).ok
        THEN [self |-> self, result |-> SetWifiConfigResult(answers.set_config_sta),
              calls |-> <<set_mode>> \o sta]
        ELSE IF ap /= <<>> /\ ~SetWifiConfigResult(answers.set_config_ap).ok
        THEN [self |-> self, result |-> SetWifiConfigResult(answers.set_config_ap),
              calls |-> <<set_mode>> \o sta \o ap]
        ELSE [self |-> IF answers.start = "ESP_OK"
                       THEN [self EXCEPT !.started = TRUE] ELSE self,
              result |-> StartResult(answers.start),
              calls |-> <<set_mode>> \o sta \o ap \o <<start>>]

---------------------------------------------------------------------------
(* The WiFi driver behind the esp_wifi_* calls: what a call that the driver *)
(* answers ESP_OK changes.  A call answered with an error changes nothing; *)
(* esp_wifi_stop, whose answer the adapter ignores, stops the driver.      *)

DriverInit ==
    [initialized |-> FALSE, mode |-> "WIFI_MODE_NULL", sta_config |-> None,
     ap_config |-> None, started |-> FALSE]

DriverApply(d, c) ==
    IF c.call = "esp_wifi_stop" THEN [d EXCEPT !.started = FALSE]
    ELSE IF c.answer /= "ESP_OK" THEN d
    ELSE CASE c.call = "esp_wifi_init" -> [d EXCEPT !.initialized = TRUE]
           [] c.call = "esp_wifi_deinit" ->
                  [d EXCEPT !.initialized = FALSE, !.started = FALSE]
           [] c.call = "esp_wifi_set_mode" -> [d EXCEPT !.mode = c.args[1]]
           [] c.call = "esp_wifi_set_config" ->
                  IF c.args[1] = "ESP_IF_WIFI_STA"
                  THEN [d EXCEPT !.sta_config = Some(c.args[2])]
                  ELSE [d EXCEPT !.ap_config = Some(c.args[2])]
           [] c.call = "esp_wifi_start" -> [d EXCEPT !.started = TRUE]
           [] OTHER -> d

RECURSIVE DriverAfter(_, _)
\* the driver after a sequence of calls
DriverAfter(d, calls) ==
    IF calls = <<>> THEN d ELSE DriverAfter(DriverApply(d, Head(calls)), Tail(calls))

\* some call of the sequence is a call of `name`
Called(calls, name) == \E i \in DOMAIN calls : calls[i].call = name

---------------------------------------------------------------------------
(* gpio.rs: the pin bank; uart.rs: CaptureGpioPin *)

Pins == {0, 1, 2, 3, 4, 5, 12, 13, 14, 15, 16}

\* gpio.rs:60, PhantomPin::PIN_NUM, the "not connected" pin
PhantomPin == 255

\* the pins CaptureGpioPin is implemented for, besides PhantomPin
CapturablePins == {1, 2, 3, 13, 15}

\* impl_pwm_pin_for!: every pin except Gpio16
PwmPins == Pins \ {16}

\* GpioHardware::new: every slot Some
GpioHardwareNew == [p \in Pins |-> TRUE]

\* GpioPin::get_pin_mask: 1 << PIN_NUM, overridden to 0 by PhantomPin
GetPinMask(pin) == IF pin = PhantomPin THEN 0 ELSE 2 ^ pin

\* a slip: capturing the placeholder takes the Rx pin of uart0
CapturePinPhantomTakesRx(hw, pin) ==
    IF pin = PhantomPin THEN [hw EXCEPT ![3] = FALSE] ELSE [hw EXCEPT ![pin] = FALSE]

\* a slip: release flips the slot instead of filling it
ReleasePinToggles(hw, pin) ==
    IF pin = PhantomPin THEN hw ELSE [hw EXCEPT ![pin] = ~@]

\* capture_pin: `gpio_hw.gpioN.take();`, the token taken is dropped
CapturePin(hw, pin) == IF pin = PhantomPin THEN hw ELSE [hw EXCEPT ![pin] = FALSE]

\* release_pin: `gpio_hw.gpioN.replace(GpioN::new());`
ReleasePin(hw, pin) == IF pin = PhantomPin THEN hw ELSE [hw EXCEPT ![pin] = TRUE]

---------------------------------------------------------------------------
(* gpio.rs: the capability markers and PinInitializer.  A setter takes     *)
(* `mut self` and returns Self; it exists only for the pins that implement *)
(* the marker of its `where` clause.                                       *)

OutputPinMarker == Pins
InputPinMarker == Pins
OpenDrainPinMarker == Pins \ {16}
\* a slip: every pin can be pulled down
PullDownPinMarkerEveryPin == Pins
PullDownPinMarker == {16}
PullUpPinMarker == Pins \ {16}
InterruptPinMarker == Pins \ {16}

PinInterruptMode ==
    {"Disabled", "PositiveEdge", "NegativeEdge", "AnyEdge", "LowLevel", "HighLevel"}

\* PinInterruptMode::to_raw
PinInterruptModeToRaw(mode) ==
    CASE mode = "Disabled" -> "GPIO_INTR_DISABLE"
      [] mode = "PositiveEdge" -> "GPIO_INTR_POSEDGE"
      [] mode = "NegativeEdge" -> "GPIO_INTR_NEGEDGE"
      [] mode = "AnyEdge" -> "GPIO_INTR_ANYEDGE"
      [] mode = "LowLevel" -> "GPIO_INTR_LOW_LEVEL"
      [] mode = "HighLevel" -> "GPIO_INTR_HIGH_LEVEL"

PinKind == "PinInitializer"

PinInitializerNew(pin) ==
    [kind |-> PinKind, pin |-> pin,
     config |-> [pin_bit_mask |-> GetPinMask(pin), mode |-> "GPIO_MODE_DISABLE",
                 pull_up_en |-> "GPIO_PULLUP_DISABLE",
                 pull_down_en |-> "GPIO_PULLDOWN_DISABLE",
                 intr_type |-> "GPIO_INTR_DISABLE"]]

PinEnablePullUp(self) == [self EXCEPT !.config.pull_up_en = "GPIO_PULLUP_ENABLE"]
PinEnablePullDown(self) == [self EXCEPT !.config.pull_down_en = "GPIO_PULLDOWN_ENABLE"]
PinConfigureAsInput(self) == [self EXCEPT !.config.mode = "GPIO_MODE_INPUT"]
PinConfigureAsOutput(self) == [self EXCEPT !.config.mode = "GPIO_MODE_OUTPUT"]
PinConfigureAsOpenDrain(self) == [self EXCEPT !.config.mode = "GPIO_MODE_OUTPUT_OD"]
PinSetInterruptMode(self, mode) ==
    [self EXCEPT !.config.intr_type = PinInterruptModeToRaw(mode)]

\* PinInitializer::init: gpio_config(&self.config), whose answer is ignored
PinInit(self) ==
    [result |-> [type |-> "InitializedPin", pin |-> self.pin],
     calls |-> <<[call |-> "gpio_config", config |-> self.config]>>]

---------------------------------------------------------------------------
(* uart.rs: ports, their pins and capabilities *)

UartPorts == {"Uart0Hardware", "Uart0AltHardware", "Uart1Hardware"}

\* UartGpioPins of each UartHardwareInstance: <<Tx, Rx, Cts, Rts>>
UartPins(port) ==
    CASE port = "Uart0Hardware" -> <<1, 3, 13, 15>>
      [] port = "Uart0AltHardware" -> <<15, 13, PhantomPin, PhantomPin>>
      [] port = "Uart1Hardware" -> <<2, PhantomPin, PhantomPin, PhantomPin>>

\* UartHardwareInstance::UART_PORT_NUM
UART_PORT_NUM(port) == IF port = "Uart1Hardware" THEN "Uart1" ELSE "Uart0"

\* UartNumber::map_to_ffi
UartNumberToFfi(number) == IF number = "Uart0" THEN "UART_NUM_0" ELSE "UART_NUM_1"

\* UartHardwareInstance::InitializedType
InitializedType(port) ==
    CASE port = "Uart0Hardware" -> "Uart0"
      [] port = "Uart0AltHardware" -> "Uart0Alt"
      [] port = "Uart1Hardware" -> "Uart1"

\* Uart::Hardware
UartHardwareOf(uart) ==
    CASE uart = "Uart0" -> "Uart0Hardware"
      [] uart = "Uart0Alt" -> "Uart0AltHardware"
      [] uart = "Uart1" -> "Uart1Hardware"

\* a slip: every port has hardware flow control
UartHaveHardwareFlowEveryPort == {"Uart0Hardware", "Uart0AltHardware", "Uart1Hardware"}

UartCanWrite == {"Uart0Hardware", "Uart0AltHardware", "Uart1Hardware"}
UartCanRead == {"Uart0Hardware", "Uart0AltHardware"}
UartHaveHardwareFlow == {"Uart0Hardware"}

\* UartHardware::new
UartHardwareNew == [uart0 |-> TRUE, uart1 |-> TRUE]

\* Uart0Hardware::into_alternative_mode: the token is consumed, a new
\* Uart0AltHardware is returned
IntoAlternativeMode(port) == "Uart0AltHardware"

\* Uart1Hardware::into_normal_mode: the token is consumed, a new
\* Uart0Hardware is returned
IntoNormalMode(port) == "Uart0Hardware"

---------------------------------------------------------------------------
(* uart.rs: UartInitializer.  A setter takes &mut self: it is modelled by  *)
(* the initializer it leaves and the Result it returns.                    *)

UartKind == "UartInitializer"

UartInitializerNew(port) ==
    [kind |-> UartKind, port |-> port,
     config |-> [baud_rate |-> 9600, data_bits |-> "UART_DATA_8_BITS",
                 parity |-> "UART_PARITY_DISABLE", stop_bits |-> "UART_STOP_BITS_1",
                 flow_ctrl |-> "UART_HW_FLOWCTRL_DISABLE", rx_flow_ctrl_thresh |-> 0],
     rx_buffer_size |-> IF UART_PORT_NUM(port) = "Uart1" THEN 0 ELSE 256,
     tx_buffer_size |-> 0]

Returned(self, result) == [self |-> self, result |-> result]

\* a slip: the upper limit is not checked
UartSetBaudRateNoMaximum(self, baud_rate) ==
    IF baud_rate < 300
    THEN Returned(self, Err("InvalidBaudRate"))
    ELSE Returned([self EXCEPT !.config.baud_rate = baud_rate], Ok("Self"))

UartSetBaudRate(self, baud_rate) ==
    IF baud_rate < 300 \/ baud_rate > 15200 * 40
    THEN Returned(self, Err("InvalidBaudRate"))
    ELSE Returned([self EXCEPT !.config.baud_rate = baud_rate], Ok("Self"))

UartDataBitsToFfi(data_bits) ==
    CASE data_bits = "B5" -> "UART_DATA_5_BITS"
      [] data_bits = "B6" -> "UART_DATA_6_BITS"
      [] data_bits = "B7" -> "UART_DATA_7_BITS"
      [] data_bits = "B8" -> "UART_DATA_8_BITS"

UartParityToFfi(parity) ==
    CASE parity = "Disabled" -> "UART_PARITY_DISABLE"
      [] parity = "Even" -> "UART_PARITY_EVEN"
      [] parity = "Odd" -> "UART_PARITY_ODD"

UartStopBitsToFfi(stop_bits) ==
    CASE stop_bits = "B1" -> "UART_STOP_BITS_1"
      [] stop_bits = "B1_5" -> "UART_STOP_BITS_1_5"
      [] stop_bits = "B2" -> "UART_STOP_BITS_2"

UartHwControlFlowToFfi(control_flow) ==
    CASE control_flow = "Disabled" -> "UART_HW_FLOWCTRL_DISABLE"
      [] control_flow = "Cts" -> "UART_HW_FLOWCTRL_CTS"
      [] control_flow = "Rts" -> "UART_HW_FLOWCTRL_RTS"
      [] control_flow = "CtsRts" -> "UART_HW_FLOWCTRL_CTS_RTS"

UartSetDataBits(self, data_bits) ==
    Returned([self EXCEPT !.config.data_bits = UartDataBitsToFfi(data_bits)], Ok("Self"))

UartSetParity(self, parity) ==
    Returned([self EXCEPT !.config.parity = UartParityToFfi(parity)], Ok("Self"))

UartSetStopBits(self, stop_bits) ==
    Returned([self EXCEPT !.config.stop_bits = UartStopBitsToFfi(stop_bits)], Ok("Self"))

UartSetHwControlFlow(self, control_flow) ==
    Returned([self EXCEPT !.config.flow_ctrl = UartHwControlFlowToFfi(control_flow)],
             Ok("Self"))

UartSetHwControlFlowRxThreshold(self, threshold) ==
    IF threshold > 127
    THEN Returned(self, Err("InvalidRxThreshold"))
    ELSE Returned([self EXCEPT !.config.rx_flow_ctrl_thresh = threshold], Ok("Self"))

\* a slip: the minimum is one byte too low
UartSetRxBufferSizeAccepts255(self, size) ==
    IF size < 255
    THEN Returned(self, Err("InvalidRxBufferSize"))
    ELSE Returned([self EXCEPT !.rx_buffer_size = size], Ok("Self"))

UartSetRxBufferSize(self, size) ==
    IF size < 256
    THEN Returned(self, Err("InvalidRxBufferSize"))
    ELSE Returned([self EXCEPT !.rx_buffer_size = size], Ok("Self"))

UartSetTxBufferSize(self, size) ==
    IF size < 256 /\ size /= 0
    THEN Returned(self, Err("InvalidTxBufferSize"))
    ELSE Returned([self EXCEPT !.tx_buffer_size = size], Ok("Self"))

\* TransmittingUart::write_bytes: the driver's count is returned as it is
UartWriteBytes(uart, len, written) ==
    [result |-> written,
     calls |-> <<[call |-> "uart_write_bytes",
                  uart_num |-> UartNumberToFfi(UART_PORT_NUM(UartHardwareOf(uart))),
                  len |-> len]>>]

\* ReceivingUart::read_bytes: a negative count of the driver is a timeout
UartReadBytes(uart, len, written_bytes) ==
    [result |-> IF written_bytes < 0 THEN Err("Timeout") ELSE Ok(written_bytes),
     calls |-> <<[call |-> "uart_read_bytes",
                  uart_num |-> UartNumberToFfi(UART_PORT_NUM(UartHardwareOf(uart))),
                  len |-> len]>>]

\* the four capture_pin calls of initialize, in order Tx, Rx, Cts, Rts
CapturePortPins(hw, port) ==
    CapturePin(CapturePin(CapturePin(CapturePin(hw,
        UartPins(port)[1]), UartPins(port)[2]), UartPins(port)[3]), UartPins(port)[4])

\* a slip: the pins are captured before uart_driver_install is called
UartInitializeCapturesFirst(self, hw, param_config_ok, driver_install_ok) ==
    LET uart_num == UartNumberToFfi(UART_PORT_NUM(self.port))
        param_config == [call |-> "uart_param_config", uart_num |-> uart_num,
                         config |-> self.config]
        driver_install == [call |-> "uart_driver_install", uart_num |-> uart_num,
                           rx |-> self.rx_buffer_size, tx |-> self.tx_buffer_size]
    IN  IF ~param_config_ok
        THEN [result |-> Err("Unknown"), gpio_hw |-> hw, calls |-> <<param_config>>]
        ELSE [result |-> IF driver_install_ok THEN Ok(InitializedType(self.port))
                         ELSE Err("Unknown"),
              gpio_hw |-> CapturePortPins(hw, self.port),
              calls |-> <<param_config, driver_install>>]

\* UartInitializer::initialize, given the answers of uart_param_config and
\* uart_driver_install: the Result, the bank it leaves, the driver calls made
UartInitialize(self, hw, param_config_ok, driver_install_ok) ==
    LET uart_num == UartNumberToFfi(UART_PORT_NUM(self.port))
        param_config == [call |-> "uart_param_config", uart_num |-> uart_num,
                         config |-> self.config]
        driver_install == [call |-> "uart_driver_install", uart_num |-> uart_num,
                           rx |-> self.rx_buffer_size, tx |-> self.tx_buffer_size]
    IN  IF ~param_config_ok
        THEN [result |-> Err("Unknown"), gpio_hw |-> hw, calls |-> <<param_config>>]
        ELSE IF ~driver_install_ok
        THEN [result |-> Err("Unknown"), gpio_hw |-> hw,
              calls |-> <<param_config, driver_install>>]
        ELSE [result |-> Ok(InitializedType(self.port)),
              gpio_hw |-> CapturePortPins(hw, self.port),
              calls |-> <<param_config, driver_install>>]

---------------------------------------------------------------------------
(* pwm.rs: PwmInitializer.  add_channel and set_period take self by value  *)
(* and return Result<Self, _>: on Err the initializer is gone.             *)

PwmKind == "PwmInitializer"

\* pwm.rs:8
MAX_PWM_CHANNELS == 8

PwmInitializerNew ==
    [kind |-> PwmKind, channels_count |-> 0,
     channels |-> [i \in 0..(MAX_PWM_CHANNELS - 1) |-> [pin |-> 0, duty |-> 0]],
     period |-> None]

\* a slip: every channel is written to slot 0
PwmAddChannelOverwritesFirst(self, pin, duty) ==
    IF self.channels_count < 8
    THEN Ok([self EXCEPT !.channels[0] = [pin |-> pin, duty |-> duty],
                         !.channels_count = @ + 1])
    ELSE Err("TooManyChannels")

PwmAddChannel(self, pin, duty) ==
    IF self.channels_count < 8
    THEN Ok([self EXCEPT !.channels[self.channels_count] = [pin |-> pin, duty |-> duty],
                         !.channels_count = @ + 1])
    ELSE Err("TooManyChannels")

\* a slip: a period of exactly 10 is refused
PwmSetPeriodRejects10(self, period) ==
    IF period <= 10
    THEN Err("TooShortPeriod")
    ELSE Ok([self EXCEPT !.period = Some(period)])

PwmSetPeriod(self, period) ==
    IF period < 10
    THEN Err("TooShortPeriod")
    ELSE Ok([self EXCEPT !.period = Some(period)])

\* Pwm::new
PwmNew(channel_count, period) ==
    [configuration |-> [channel_count |-> channel_count, period |-> period,
                        stop_level |-> 0]]

\* Pwm::deinitialize: stop(), then pwm_deinit(); the Pwm is consumed and
\* nothing is returned
PwmDeinitialize(self) ==
    [result |-> "()",
     calls |-> <<[call |-> "pwm_stop", stop_level |-> self.configuration.stop_level],
                 [call |-> "pwm_deinit"]>>]

\* a slip: only the first channel's duty is compared with the period
PwmInitializeChecksFirstChannel(self) ==
    IF self.period = None
    THEN [result |-> Err(<<"PeriodNotSet", self>>), calls |-> <<>>]
    ELSE IF self.channels[0].duty > Unwrap(self.period)
    THEN [result |-> Err(<<"DutyExceedsPeriod", self>>), calls |-> <<>>]
    ELSE [result |-> Ok(PwmNew(self.channels_count, Unwrap(self.period))),
          calls |-> <<[call |-> "pwm_init", period |-> Unwrap(self.period),
                       duties |-> [i \in 0..(MAX_PWM_CHANNELS - 1) |->
                                       self.channels[i].duty],
                       channel_num |-> self.channels_count,
                       pins |-> [i \in 0..(MAX_PWM_CHANNELS - 1) |->
                                     self.channels[i].pin]]>>]

\* PwmInitializer::initialize: the Result and the driver calls made
PwmInitialize(self) ==
    IF self.period = None
    THEN [result |-> Err(<<"PeriodNotSet", self>>), calls |-> <<>>]
    ELSE IF \E i \in 0..(MAX_PWM_CHANNELS - 1) : self.channels[i].duty > Unwrap(self.period)
    THEN [result |-> Err(<<"DutyExceedsPeriod", self>>), calls |-> <<>>]
    ELSE [result |-> Ok(PwmNew(self.channels_count, Unwrap(self.period))),
          calls |-> <<[call |-> "pwm_init", period |-> Unwrap(self.period),
                       duties |-> [i \in 0..(MAX_PWM_CHANNELS - 1) |->
                                       self.channels[i].duty],
                       channel_num |-> self.channels_count,
                       pins |-> [i \in 0..(MAX_PWM_CHANNELS - 1) |->
                                     self.channels[i].pin]]>>]

---------------------------------------------------------------------------
(* pwm.rs: PwmConfiguration, the record a Pwm hands to the closure of      *)
(* configure.  Each method gives its Result, the configuration it leaves   *)
(* and the driver calls it makes; `answer` is what the driver returns.     *)

\* bit i of the byte n
Bit(n, i) == (n \div 2^i) % 2

AssertChannel(self, channel) ==
    IF channel >= self.channel_count THEN Err("InvalidChannel") ELSE Ok("()")

PwmConfigurationSetStopLevel(self, channel, level) ==
    IF ~AssertChannel(self, channel).ok
    THEN [result |-> AssertChannel(self, channel), self |-> self, calls |-> <<>>]
    ELSE LET bit_mask == 2^channel
             bit_value == IF level THEN 2^channel ELSE 0
             cleared == self.stop_level - Bit(self.stop_level, channel) * bit_mask
         IN  [result |-> Ok("Self"),
              self |-> [self EXCEPT !.stop_level = cleared + bit_value],
              calls |-> <<>>]

PwmConfigurationSetInvertedState(self, channel, is_inverted) ==
    IF ~AssertChannel(self, channel).ok
    THEN [result |-> AssertChannel(self, channel), self |-> self, calls |-> <<>>]
    ELSE [result |-> Ok("Self"), self |-> self,
          calls |-> <<[call |-> IF is_inverted THEN "pwm_set_channel_invert"
                                ELSE "pwm_clear_channel_invert",
                       args |-> <<2^channel>>]>>]

PwmConfigurationSetPeriod(self, period, answer) ==
    [result |-> IF answer /= "ESP_OK" THEN Err("TooShortPeriod") ELSE Ok("Self"),
     self |-> IF answer /= "ESP_OK" THEN self ELSE [self EXCEPT !.period = period],
     calls |-> <<[call |-> "pwm_set_period", args |-> <<period>>]>>]

PwmConfigurationSetDuty(self, channel, duty, answer) ==
    IF duty > self.period
    THEN [result |-> Err("DutyExceedsPeriod"), self |-> self, calls |-> <<>>]
    ELSE [result |-> IF answer /= "ESP_OK" THEN Err("InvalidChannel") ELSE Ok("Self"),
          self |-> self,
          calls |-> <<[call |-> "pwm_set_duty", args |-> <<channel, duty>>]>>]

PwmConfigurationSetPhase(self, channel, phase, answer) ==
    IF phase < -180 \/ phase > 180
    THEN [result |-> Err("InvalidPhase"), self |-> self, calls |-> <<>>]
    ELSE [result |-> IF answer /= "ESP_OK" THEN Err("InvalidChannel") ELSE Ok("Self"),
          self |-> self,
          calls |-> <<[call |-> "pwm_set_phase", args |-> <<channel, phase>>]>>]

\* the one method a configure closure calls, as <<name, arguments...>>
PwmConfigurationCall(self, c, answer) ==
    CASE c[1] = "set_stop_level" -> PwmConfigurationSetStopLevel(self, c[2], c[3])
      [] c[1] = "set_inverted_state" -> PwmConfigurationSetInvertedState(self, c[2], c[3])
      [] c[1] = "set_period" -> PwmConfigurationSetPeriod(self, c[2], answer)
      [] c[1] = "set_duty" -> PwmConfigurationSetDuty(self, c[2], c[3], answer)
      [] c[1] = "set_phase" -> PwmConfigurationSetPhase(self, c[2], c[3], answer)

\* Pwm::configure with the closure |c| c.method(arguments).map(|_| ())
PwmConfigure(self, c, answer) ==
    LET r == PwmConfigurationCall(self.configuration, c, answer)
    IN  [result |-> r.result, self |-> [self EXCEPT !.configuration = r.self],
         calls |-> r.calls]

\* the driver's record of the unit after the calls, answered with `answer`
PwmDriverAfter(d, calls, answer) ==
    IF calls = <<>> \/ answer /= "ESP_OK" THEN d
    ELSE CASE calls[1].call = "pwm_set_period" -> [d EXCEPT !.period = calls[1].args[1]]
           [] calls[1].call = "pwm_set_duty" /\ calls[1].args[1] \in DOMAIN d.duties ->
                  [d EXCEPT !.duties[calls[1].args[1]] = calls[1].args[2]]
           [] OTHER -> d

---------------------------------------------------------------------------
(* The client's draft: the one builder it is chaining calls on.  The chain *)
(* record is history: how many setter calls the chain has seen, and the    *)
(* errors its first and its latest rejected call recorded.                 *)

Absent == [kind |-> "Absent"]

NewChain ==
    [calls |-> 0, first_error |-> None, last_error |-> None,
     accepted_after_error |-> FALSE, accepted |-> <<>>]

\* the chain after a call that recorded the error `recorded` (None: accepted)
Chained(recorded) ==
    [calls |-> chain.calls + 1,
     first_error |-> IF chain.first_error = None THEN recorded ELSE chain.first_error,
     last_error |-> IF recorded = None THEN chain.last_error ELSE recorded,
     accepted_after_error |-> \/ chain.accepted_after_error
                              \/ recorded = None /\ chain.first_error /= None,
     accepted |-> chain.accepted]

\* the chain after an add_channel(pin, duty) call that returned `r`: the
\* channels accepted so far, in call order
ChainedChannel(r, pin, duty) ==
    [Chained(IF r.ok THEN None ELSE Some(r.err)) EXCEPT
        !.accepted = IF r.ok THEN Append(@, [pin |-> pin, duty |-> duty]) ELSE @]

\* what a `mut self -> Self` setter F records when called with v on `self`:
\* the pending error it leaves on a draft that had none
Recorded(F(_, _), self, v) == F([self EXCEPT !.pending_error = None], v).pending_error

\* the arguments the setters are called with
SsidInputs == {Str(13, 97), Str(32, 98), Str(33, 99)}
PasswordInputs == {Str(10, 112), Str(64, 113), Str(65, 114)}
ChannelInputs == {0, 1, 14, 15}
MaxConnectionsInputs == {0, 1, 4, 5}
BeaconIntervalInputs == {99, 100, 60000, 60001}
ListenIntervalInputs == {0, 3}
BssidInputs == {<<2, 4, 6, 8, 10, 12>>}
ScanThresholdInputs ==
    {ScanThresholdBuild(ScanThresholdNew),
     ScanThresholdBuild(ScanThresholdMinAuthMode(ScanThresholdNew, "Wpa2Psk")),
     ScanThresholdBuild(ScanThresholdMinSignalStrength(ScanThresholdNew, -70))}

\* a chained WiFi builder call `draft = draft.op(v)`
WiFiSetter(kind, op, F(_, _), v) ==
    /\ draft.kind = kind
    /\ chain.calls < MaxCalls
    /\ draft' = F(draft, v)
    /\ chain' = Chained(Recorded(F, draft, v))
    /\ last' = [op |-> op, kind |-> kind, recorded |-> Recorded(F, draft, v),
                call_site |-> Ok("Self"), before |-> draft, arg |-> <<v>>]
    /\ UNCHANGED <<registryVars, wifiVars, gpioVars, uartVars, pwmVars>>

\* `draft.build()`: consumes the draft
WiFiBuild(kind, result) ==
    /\ draft.kind = kind
    /\ draft' = Absent
    /\ last' = [op |-> "build", kind |-> kind, result |-> result, before |-> draft]
    /\ UNCHANGED <<chain, registryVars, wifiVars, gpioVars, uartVars, pwmVars>>

ApBuilderSsid == \E v \in SsidInputs : WiFiSetter(ApKind, "ssid", ApSsid, v)
ApBuilderPassword == \E v \in PasswordInputs : WiFiSetter(ApKind, "password", ApPassword, v)
ApBuilderAuthMode == \E v \in WiFiAuthMode : WiFiSetter(ApKind, "auth_mode", ApAuthMode, v)
ApBuilderChannel == \E v \in ChannelInputs : WiFiSetter(ApKind, "channel", ApChannel, v)
ApBuilderHidden == \E v \in BOOLEAN : WiFiSetter(ApKind, "hidden", ApHidden, v)
ApBuilderMaxConnections ==
    \E v \in MaxConnectionsInputs :
        WiFiSetter(ApKind, "max_connections", ApMaxConnections, v)
ApBuilderBeaconInterval ==
    \E v \in BeaconIntervalInputs :
        WiFiSetter(ApKind, "beacon_interval", ApBeaconInterval, v)
ApBuilderBuild == WiFiBuild(ApKind, ApBuild(draft))

StaBuilderSsid == \E v \in SsidInputs : WiFiSetter(StaKind, "ssid", StaSsid, v)
StaBuilderPassword ==
    \E v \in PasswordInputs : WiFiSetter(StaKind, "password", StaPassword, v)
StaBuilderScanMethod ==
    \E v \in {"Fast", "AllChannel"} : WiFiSetter(StaKind, "scan_method", StaScanMethod, v)
StaBuilderBssid == \E v \in BssidInputs : WiFiSetter(StaKind, "bssid", StaBssid, v)
StaBuilderChannel == \E v \in ChannelInputs : WiFiSetter(StaKind, "channel", StaChannel, v)
StaBuilderListenInterval ==
    \E v \in ListenIntervalInputs :
        WiFiSetter(StaKind, "listen_interval", StaListenInterval, v)
StaBuilderSortMethod ==
    \E v \in {"BySignal", "BySecurity"} :
        WiFiSetter(StaKind, "sort_method", StaSortMethod, v)
StaBuilderScanThreshold ==
    \E v \in ScanThresholdInputs :
        WiFiSetter(StaKind, "scan_threshold", StaScanThreshold, v)
StaBuilderBuild == WiFiBuild(StaKind, StaBuild(draft))

---------------------------------------------------------------------------
(* The registry and the WiFi adapter: the client's calls *)

\* the driver's answers followed
InitAnswers == {"ESP_OK", "ESP_ERR_NO_MEM"}
\* wifi.rs:686: esp_wifi_deinit always answers ESP_OK
DeinitAnswers == {"ESP_OK"}
SetModeAnswers == {"ESP_OK", "ESP_ERR_INVALID_ARG"}
SetConfigAnswers == {"ESP_OK", "ESP_ERR_WIFI_PASSWORD", "ESP_ERR_WIFI_NVS", "ESP_FAIL"}
StartAnswers ==
    {"ESP_OK", "ESP_ERR_NO_MEM", "ESP_ERR_INVALID_ARG", "ESP_ERR_WIFI_CONN", "ESP_FAIL"}

\* the configurations handed to set_ap_config / set_sta_config: the module
\* documentation's AP example, and a station with ssid and password
ApConfigurations ==
    {ApBuild(ApPassword(ApAuthMode(ApSsid(ApNew, Str(13, 97)), "WpaWpa2Psk"),
                        Str(10, 112))).value}
StaConfigurations ==
    {StaBuild(StaPassword(StaSsid(StaNew, Str(13, 97)), Str(10, 112))).value}

\* `Peripherals::take()`; the client keeps the WiFiPeripherals it gets
TakeCall ==
    /\ Len(take_results) < MaxTakes
    /\ LET r == PeripheralsTake(PERIPHERALS_SINGLETON)
       IN  /\ PERIPHERALS_SINGLETON' = r.singleton
           /\ take_results' = Append(take_results, r.result)
           /\ wifi_obj' = IF r.result /= None /\ wifi_obj = Nothing
                          THEN Unwrap(r.result).wifi ELSE wifi_obj
           /\ last' = [op |-> "take", result |-> r.result]
    /\ UNCHANGED <<contexts, drv, gpioVars, uartVars, pwmVars, draftVars>>

\* history: the adapter operation made just before this one and whether it
\* returned Ok, for the operations that can be tried again
Previous ==
    IF last.op \in {"initialize", "start", "stop"}
    THEN <<last.op, last.result.ok>>
    ELSE <<>>

\* an adapter operation: the object it leaves with the client, what it
\* returned, the driver calls it made
WiFiOperation(op, left, result, calls) ==
    /\ wifi_obj' = left
    /\ drv' = DriverAfter(drv, calls)
    /\ last' = [op |-> op, result |-> result, calls |-> calls, before |-> wifi_obj,
                drv_before |-> drv, prev |-> Previous]
    /\ UNCHANGED <<registryVars, gpioVars, uartVars, pwmVars, draftVars>>

WiFiHardwareNewCall ==
    /\ wifi_obj.type = "WiFiPeripherals"
    /\ WiFiOperation("new", WiFiHardwareNew(wifi_obj), Ok("WiFiHardware"), <<>>)

WiFiHardwareInitializeCall ==
    /\ wifi_obj.type = "WiFiHardware"
    /\ \E answer \in InitAnswers :
           LET r == WiFiHardwareInitialize(wifi_obj, answer)
           IN  WiFiOperation("initialize",
                             IF r.result.ok THEN r.result.value ELSE r.result.err[2],
                             IF r.result.ok THEN Ok("WiFi") ELSE Err(r.result.err[1]),
                             r.calls)

WiFiHardwareDeinitializeCall ==
    /\ wifi_obj.type = "WiFiHardware"
    /\ \E answer \in DeinitAnswers :
           LET r == WiFiHardwareDeinitialize(wifi_obj, answer)
           IN  WiFiOperation("deinitialize", r.result, Ok(r.result.type), r.calls)

WiFiSetApConfigCall ==
    /\ wifi_obj.type = "WiFi"
    /\ \E config \in ApConfigurations :
           WiFiOperation("set_ap_config", WiFiSetApConfig(wifi_obj, config), Ok("Self"),
                         <<>>)

WiFiSetStaConfigCall ==
    /\ wifi_obj.type = "WiFi"
    /\ \E config \in StaConfigurations :
           WiFiOperation("set_sta_config", WiFiSetStaConfig(wifi_obj, config), Ok("Self"),
                         <<>>)

WiFiStartCall ==
    /\ wifi_obj.type = "WiFi"
    /\ \E answers \in [set_mode : SetModeAnswers, set_config_sta : SetConfigAnswers,
                       set_config_ap : SetConfigAnswers, start : StartAnswers] :
           LET r == WiFiStart(wifi_obj, answers)
           IN  WiFiOperation("start", r.self, r.result, r.calls)

WiFiStopCall ==
    /\ wifi_obj.type = "WiFi"
    /\ WiFiOperation("stop", WiFiStop(wifi_obj).self, Ok("Self"), WiFiStop(wifi_obj).calls)

WiFiDowngradeCall ==
    /\ wifi_obj.type = "WiFi"
    /\ LET r == WiFiDowngrade(wifi_obj)
       IN  WiFiOperation("downgrade", r.result,
                         Ok([hardware |-> r.result, started |-> r.self.started]), r.calls)

---------------------------------------------------------------------------
(* The client's moves on the pin bank and the UART bank *)

\* the pins the client moves out of the bank itself: the Tx pins of uart0 and
\* uart1 and one pin no UART uses
ClientPins == {1, 2, 4}

---------------------------------------------------------------------------
(* WiFiScanThresholdBuilder calls *)

ScanThresholdKind == "WiFiScanThresholdBuilder"
RssiInputs == {-128, -70, -1, 0, 127}

\* `builder = builder.op(v)` on the WiFiScanThresholdBuilder held in draft.self
ScanThresholdSetterCall(op, after, v) ==
    /\ draft.kind = ScanThresholdKind
    /\ chain.calls < MaxCalls
    /\ draft' = [kind |-> ScanThresholdKind, self |-> after]
    /\ chain' = Chained(IF after.pending_error /= draft.self.pending_error
                        THEN after.pending_error ELSE None)
    /\ last' = [op |-> op, kind |-> ScanThresholdKind, before |-> draft.self,
                arg |-> <<v>>]
    /\ UNCHANGED <<registryVars, wifiVars, gpioVars, uartVars, pwmVars>>

ScanThresholdMinSignalStrengthCall ==
    \E rssi \in RssiInputs :
        ScanThresholdSetterCall("min_signal_strength",
                                ScanThresholdMinSignalStrength(draft.self, rssi), rssi)

ScanThresholdMinAuthModeCall ==
    \E mode \in WiFiAuthMode :
        ScanThresholdSetterCall("min_auth_mode",
                                ScanThresholdMinAuthMode(draft.self, mode), mode)

\* `builder.build()`: a WiFiScanThreshold, or the panic of unreachable!()
ScanThresholdBuildCall ==
    /\ draft.kind = ScanThresholdKind
    /\ draft' = Absent
    /\ LET r == ScanThresholdBuild(draft.self)
       IN  last' = [op |-> "build", kind |-> ScanThresholdKind, before |-> draft.self,
                    result |-> IF r.authmode = "unreachable!"
                               THEN [type |-> "panic"]
                               ELSE [type |-> "WiFiScanThreshold", data |-> r]]
    /\ UNCHANGED <<chain, registryVars, wifiVars, gpioVars, uartVars, pwmVars>>

---------------------------------------------------------------------------
(* Peripherals::take in two execution contexts *)

\* a context enters Peripherals::take and loads the registry's content;
\* every context already inside take() is no longer alone
TakeLoad ==
    \E c \in Contexts :
        /\ contexts[c].pc = "idle"
        /\ Len(contexts[c].results) < MaxTakes
        /\ LET inside == {d \in Contexts : contexts[d].pc = "loaded"}
           IN  contexts' = [d \in Contexts |->
                   IF d = c
                   THEN [contexts[c] EXCEPT
                            !.pc = "loaded",
                            !.loaded = PeripheralsTakeLoad(PERIPHERALS_SINGLETON),
                            !.alone = (inside = {})]
                   ELSE IF d \in inside THEN [contexts[d] EXCEPT !.alone = FALSE]
                   ELSE contexts[d]]
        /\ last' = [op |-> "take_load", context |-> c]
        /\ UNCHANGED <<PERIPHERALS_SINGLETON, take_results, wifiVars, gpioVars, uartVars,
                       pwmVars, draftVars>>

\* the context stores None into the registry and returns what it loaded
TakeStore ==
    \E c \in Contexts :
        /\ contexts[c].pc = "loaded"
        /\ PERIPHERALS_SINGLETON' = PeripheralsTakeStore(PERIPHERALS_SINGLETON)
        /\ take_results' = Append(take_results, contexts[c].loaded)
        /\ contexts' = [contexts EXCEPT
                           ![c] = [pc |-> "idle", loaded |-> None, alone |-> TRUE,
                                   results |-> Append(contexts[c].results,
                                                      [result |-> contexts[c].loaded,
                                                       alone |-> contexts[c].alone])]]
        /\ last' = [op |-> "take", context |-> c, result |-> contexts[c].loaded]
        /\ UNCHANGED <<wifiVars, gpioVars, uartVars, pwmVars, draftVars>>

\* `gpio_hw.gpioN.take().unwrap()`
UserTakePin ==
    \E p \in ClientPins :
        /\ gpio_hw[p]
        /\ user_pins[p] < MaxTokens
        /\ gpio_hw' = [gpio_hw EXCEPT ![p] = FALSE]
        /\ user_pins' = [user_pins EXCEPT ![p] = @ + 1]
        /\ last' = [op |-> "take_pin", pin |-> p]
        /\ UNCHANGED <<registryVars, wifiVars, uartVars, pwmVars, draftVars>>

\* `GpioN::capture_pin(&mut gpio_hw)`
CapturePinCall ==
    \E p \in CapturablePins \cup {PhantomPin} :
        /\ gpio_hw' = CapturePin(gpio_hw, p)
        /\ last' = [op |-> "capture_pin", pin |-> p, gpio_before |-> gpio_hw]
        /\ UNCHANGED <<user_pins, registryVars, wifiVars, uartVars, pwmVars, draftVars>>

\* `GpioN::release_pin(&mut gpio_hw)`
ReleasePinCall ==
    \E p \in CapturablePins \cup {PhantomPin} :
        /\ gpio_hw' = ReleasePin(gpio_hw, p)
        /\ last' = [op |-> "release_pin", pin |-> p, gpio_before |-> gpio_hw]
        /\ UNCHANGED <<user_pins, registryVars, wifiVars, uartVars, pwmVars, draftVars>>

\* `uart_hw.uart0.take().unwrap()`, `uart_hw.uart1.take().unwrap()`
UserTakeUart ==
    \E slot \in {"uart0", "uart1"} :
        LET port == IF slot = "uart0" THEN "Uart0Hardware" ELSE "Uart1Hardware"
        IN  /\ uart_hw[slot]
            /\ uart_hw' = [uart_hw EXCEPT ![slot] = FALSE]
            /\ user_uart' = [user_uart EXCEPT ![port] = @ + 1]
            /\ last' = [op |-> "take_uart", port |-> port]
            /\ UNCHANGED <<uarts, uart_drv, registryVars, wifiVars, gpioVars, pwmVars,
                           draftVars>>

---------------------------------------------------------------------------
(* UartInitializer calls *)

\* `token.into_alternative_mode()` / `token.into_normal_mode()` on a token
\* the client holds
UartConversionCall(op, port, converted) ==
    /\ user_uart[port] > 0
    /\ user_uart' = [user_uart EXCEPT ![port] = @ - 1, ![converted] = @ + 1]
    /\ last' = [op |-> op, kind |-> "UartHardware", port |-> port, result |-> converted]
    /\ UNCHANGED <<uart_hw, uarts, uart_drv, registryVars, wifiVars, gpioVars, pwmVars,
                   draftVars>>

UartIntoAlternativeModeCall ==
    UartConversionCall("into_alternative_mode", "Uart0Hardware",
                       IntoAlternativeMode("Uart0Hardware"))

UartIntoNormalModeCall ==
    UartConversionCall("into_normal_mode", "Uart1Hardware",
                       IntoNormalMode("Uart1Hardware"))

\* UartInitializer::new(uart): the port token moves into the initializer
UartInitializerNewCall ==
    \E port \in UartPorts :
        /\ user_uart[port] > 0
        /\ user_uart' = [user_uart EXCEPT ![port] = @ - 1]
        /\ draft' = UartInitializerNew(port)
        /\ chain' = NewChain
        /\ last' = [op |-> "new", kind |-> UartKind]
        /\ UNCHANGED <<uart_hw, uarts, uart_drv, registryVars, wifiVars, gpioVars, pwmVars>>

\* `initializer.set_x(v)`, offered to the ports in `capable`
UartSetter(op, F(_, _), v, capable) ==
    /\ draft.kind = UartKind
    /\ draft.port \in capable
    /\ chain.calls < MaxCalls
    /\ LET r == F(draft, v)
           recorded == IF r.result.ok THEN None ELSE Some(r.result.err)
       IN  /\ draft' = r.self
           /\ chain' = Chained(recorded)
           /\ last' = [op |-> op, kind |-> UartKind, recorded |-> recorded,
                       call_site |-> r.result, before |-> draft, arg |-> <<v>>]
    /\ UNCHANGED <<registryVars, wifiVars, gpioVars, uartVars, pwmVars>>

BaudRateInputs == {100, 300, 9600, 608000, 608001}
RxThresholdInputs == {0, 127, 128}
BufferSizeInputs == {0, 255, 256}

UartSetBaudRateCall ==
    \E v \in BaudRateInputs : UartSetter("set_baud_rate", UartSetBaudRate, v, UartPorts)
UartSetDataBitsCall ==
    \E v \in {"B5", "B6", "B7", "B8"} :
        UartSetter("set_data_bits", UartSetDataBits, v, UartPorts)
UartSetParityCall ==
    \E v \in {"Disabled", "Even", "Odd"} :
        UartSetter("set_parity", UartSetParity, v, UartPorts)
UartSetStopBitsCall ==
    \E v \in {"B1", "B1_5", "B2"} :
        UartSetter("set_stop_bits", UartSetStopBits, v, UartPorts)
UartSetHwControlFlowCall ==
    \E v \in {"Disabled", "Rts", "Cts", "CtsRts"} :
        UartSetter("set_hw_control_flow", UartSetHwControlFlow, v, UartHaveHardwareFlow)
UartSetHwControlFlowRxThresholdCall ==
    \E v \in RxThresholdInputs :
        UartSetter("set_hw_control_flow_rx_threshold", UartSetHwControlFlowRxThreshold, v,
                   UartHaveHardwareFlow \cap UartCanRead)
UartSetRxBufferSizeCall ==
    \E v \in BufferSizeInputs :
        UartSetter("set_rx_buffer_size", UartSetRxBufferSize, v, UartCanRead)
UartSetTxBufferSizeCall ==
    \E v \in BufferSizeInputs :
        UartSetter("set_tx_buffer_size", UartSetTxBufferSize, v, UartPorts)

\* the UART driver after the calls of one initialize, every call answered OK but
\* possibly the last
UartDriverAfter(d, calls, result) ==
    LET num == calls[1].uart_num
        configured == IF Len(calls) > 1 \/ result.ok
                      THEN [d EXCEPT !.params[num] = Some(calls[1].config)]
                      ELSE d
    IN  IF result.ok
        THEN [configured EXCEPT !.installed[num] = Some([rx |-> calls[2].rx,
                                                         tx |-> calls[2].tx])]
        ELSE configured

\* `initializer.initialize(&mut gpio_hw)`: consumes the initializer
UartInitializeCall ==
    \E param_config_ok \in BOOLEAN, driver_install_ok \in BOOLEAN :
        /\ draft.kind = UartKind
        /\ LET r == UartInitialize(draft, gpio_hw, param_config_ok, driver_install_ok)
           IN  /\ gpio_hw' = r.gpio_hw
               /\ uart_drv' = UartDriverAfter(uart_drv, r.calls, r.result)
               /\ uarts' = IF r.result.ok
                           THEN [uarts EXCEPT ![r.result.value] = @ + 1]
                           ELSE uarts
               /\ last' = [op |-> "initialize", kind |-> UartKind, port |-> draft.port,
                           result |-> r.result, calls |-> r.calls, before |-> draft,
                           gpio_before |-> gpio_hw]
        /\ draft' = Absent
        /\ UNCHANGED <<chain, user_pins, uart_hw, user_uart, registryVars, wifiVars,
                       pwmVars>>

\* `initializer = initializer.op(...)` on a PinInitializer, offered to the
\* pins in `capable`
PinSetterCall(op, after, arg, capable) ==
    /\ draft.kind = PinKind
    /\ draft.pin \in capable
    /\ chain.calls < MaxCalls
    /\ draft' = after
    /\ chain' = Chained(None)
    /\ last' = [op |-> op, kind |-> PinKind, before |-> draft, arg |-> arg]
    /\ UNCHANGED <<registryVars, wifiVars, gpioVars, uartVars, pwmVars>>

PinEnablePullUpCall ==
    PinSetterCall("enable_pull_up", PinEnablePullUp(draft), <<>>, PullUpPinMarker)
PinEnablePullDownCall ==
    PinSetterCall("enable_pull_down", PinEnablePullDown(draft), <<>>, PullDownPinMarker)
PinConfigureAsInputCall ==
    PinSetterCall("configure_as_input", PinConfigureAsInput(draft), <<>>, InputPinMarker)
PinConfigureAsOutputCall ==
    PinSetterCall("configure_as_output", PinConfigureAsOutput(draft), <<>>,
                  OutputPinMarker)
PinConfigureAsOpenDrainCall ==
    PinSetterCall("configure_as_open_drain", PinConfigureAsOpenDrain(draft), <<>>,
                  OpenDrainPinMarker)
PinSetInterruptModeCall ==
    \E mode \in PinInterruptMode :
        PinSetterCall("set_interrupt_mode", PinSetInterruptMode(draft, mode), <<mode>>,
                      InterruptPinMarker)

\* `initializer.init()`: consumes the initializer
PinInitCall ==
    /\ draft.kind = PinKind
    /\ draft' = Absent
    /\ last' = [op |-> "init", kind |-> PinKind, result |-> PinInit(draft).result,
                calls |-> PinInit(draft).calls, before |-> draft]
    /\ UNCHANGED <<chain, registryVars, wifiVars, gpioVars, uartVars, pwmVars>>

\* the initialized UART objects
Uarts == {"Uart0", "Uart0Alt", "Uart1"}
BufferLength == 4

\* `uart.write_bytes(&data)`, offered to the UARTs whose port can write
UartWriteBytesCall ==
    \E u \in Uarts, written \in {0, BufferLength} :
        /\ uarts[u] > 0
        /\ UartHardwareOf(u) \in UartCanWrite
        /\ LET r == UartWriteBytes(u, BufferLength, written)
           IN  last' = [op |-> "write_bytes", kind |-> "Uart", uart |-> u,
                        result |-> r.result, calls |-> r.calls]
        /\ UNCHANGED <<registryVars, wifiVars, gpioVars, uartVars, pwmVars, draftVars>>

\* `uart.read_bytes(&mut buffer, timeout)`, offered to the UARTs whose port
\* can read
UartReadBytesCall ==
    \E u \in Uarts, written_bytes \in {-1, 0, BufferLength} :
        /\ uarts[u] > 0
        /\ UartHardwareOf(u) \in UartCanRead
        /\ LET r == UartReadBytes(u, BufferLength, written_bytes)
           IN  last' = [op |-> "read_bytes", kind |-> "Uart", uart |-> u,
                        result |-> r.result, calls |-> r.calls]
        /\ UNCHANGED <<registryVars, wifiVars, gpioVars, uartVars, pwmVars, draftVars>>

---------------------------------------------------------------------------
(* PwmInitializer calls *)

DutyInputs == {0, 20, 2000}
PeriodInputs == {5, 10, 1000}

\* `initializer = initializer.add_channel(pin, duty)?`: the pin token is moved in
PwmAddChannelCall ==
    \E p \in PwmPins, duty \in DutyInputs :
        /\ draft.kind = PwmKind
        /\ chain.calls < MaxCalls
        /\ user_pins[p] > 0
        /\ user_pins' = [user_pins EXCEPT ![p] = @ - 1]
        /\ LET r == PwmAddChannel(draft, p, duty)
               recorded == IF r.ok THEN None ELSE Some(r.err)
           IN  /\ draft' = IF r.ok THEN r.value ELSE Absent
               /\ chain' = ChainedChannel(r, p, duty)
               /\ last' = [op |-> "add_channel", kind |-> PwmKind, recorded |-> recorded,
                           call_site |-> IF r.ok THEN Ok("Self") ELSE r, before |-> draft]
        /\ UNCHANGED <<gpio_hw, registryVars, wifiVars, uartVars, pwmVars>>

\* `initializer = initializer.set_period(period)?`
PwmSetPeriodCall ==
    \E period \in PeriodInputs :
        /\ draft.kind = PwmKind
        /\ chain.calls < MaxCalls
        /\ LET r == PwmSetPeriod(draft, period)
               recorded == IF r.ok THEN None ELSE Some(r.err)
           IN  /\ draft' = IF r.ok THEN r.value ELSE Absent
               /\ chain' = Chained(recorded)
               /\ last' = [op |-> "set_period", kind |-> PwmKind, recorded |-> recorded,
                           call_site |-> IF r.ok THEN Ok("Self") ELSE r, before |-> draft,
                           arg |-> <<period>>]
        /\ UNCHANGED <<registryVars, wifiVars, gpioVars, uartVars, pwmVars>>

\* `initializer.initialize()`: Ok(Pwm), or Err with the initializer handed back
PwmInitializeCall ==
    /\ draft.kind = PwmKind
    /\ LET r == PwmInitialize(draft)
       IN  /\ draft' = IF r.result.ok THEN Absent ELSE r.result.err[2]
           /\ pwm' = IF r.result.ok THEN Some(r.result.value) ELSE pwm
           /\ pwm_drv' = IF r.result.ok THEN Some(r.calls[1]) ELSE pwm_drv
           /\ last' = [op |-> "initialize", kind |-> PwmKind,
                       result |-> IF r.result.ok THEN r.result ELSE Err(r.result.err[1]),
                       calls |-> r.calls, before |-> draft]
    /\ UNCHANGED <<chain, registryVars, wifiVars, gpioVars, uartVars>>

\* the pin and duty of an add_channel call by a client that holds every PWM
\* pin: its lowest pin with duty 0 or 20, or its highest pin with duty 20
PwmChannelInputs(held) ==
    IF held = {} THEN {}
    ELSE LET lowest == CHOOSE p \in held : \A q \in held : p <= q
             highest == CHOOSE p \in held : \A q \in held : p >= q
         IN  {<<lowest, 0>>, <<lowest, 20>>, <<highest, 20>>}

\* `initializer = initializer.add_channel(pin, duty)?`, up to MaxChannelCalls
\* times on one initializer
PwmAddNextChannelCall ==
    \E c \in PwmChannelInputs({p \in PwmPins : user_pins[p] > 0}) :
        /\ draft.kind = PwmKind
        /\ chain.calls < MaxChannelCalls
        /\ user_pins' = [user_pins EXCEPT ![c[1]] = @ - 1]
        /\ LET r == PwmAddChannel(draft, c[1], c[2])
           IN  /\ draft' = IF r.ok THEN r.value ELSE Absent
               /\ chain' = ChainedChannel(r, c[1], c[2])
               /\ last' = [op |-> "add_channel", kind |-> PwmKind,
                           recorded |-> IF r.ok THEN None ELSE Some(r.err),
                           call_site |-> IF r.ok THEN Ok("Self") ELSE r, before |-> draft]
        /\ UNCHANGED <<gpio_hw, registryVars, wifiVars, uartVars, pwmVars>>

\* `pwm.deinitialize()`: the Pwm is consumed
PwmDeinitializeCall ==
    /\ pwm /= None
    /\ LET r == PwmDeinitialize(Unwrap(pwm))
       IN  /\ pwm' = None
           /\ pwm_drv' = None
           /\ last' = [op |-> "deinitialize", kind |-> "Pwm", result |-> r.result,
                       calls |-> r.calls, before |-> Unwrap(pwm),
                       drv_before |-> Unwrap(pwm_drv)]
    /\ UNCHANGED <<draft, chain, registryVars, wifiVars, gpioVars, uartVars>>

---------------------------------------------------------------------------
(* PwmConfiguration calls on an initialized unit *)

ConfigurationChannelInputs == {0, 1, 2, 8}
PhaseInputs == {-181, -180, 0, 180, 181}
PwmAnswers == {"ESP_OK", "ESP_ERR_INVALID_ARG"}

ConfigurationCallInputs ==
    ({"set_stop_level", "set_inverted_state"} \X ConfigurationChannelInputs \X BOOLEAN)
    \cup ({"set_period"} \X PeriodInputs)
    \cup ({"set_duty"} \X ConfigurationChannelInputs \X DutyInputs)
    \cup ({"set_phase"} \X ConfigurationChannelInputs \X PhaseInputs)

\* `pwm.configure(|c| c.method(arguments).map(|_| ()))`
PwmConfigureCall ==
    \E c \in ConfigurationCallInputs, answer \in PwmAnswers :
        /\ pwm /= None
        /\ LET r == PwmConfigure(Unwrap(pwm), c, answer)
           IN  /\ pwm' = Some(r.self)
               /\ pwm_drv' = Some(PwmDriverAfter(Unwrap(pwm_drv), r.calls, answer))
               /\ last' = [op |-> c[1], kind |-> "PwmConfiguration", arg |-> Tail(c),
                           result |-> r.result, calls |-> r.calls,
                           before |-> Unwrap(pwm).configuration]
        /\ UNCHANGED <<draft, chain, registryVars, wifiVars, gpioVars, uartVars>>

---------------------------------------------------------------------------
(* Specifications *)

\* no draft in hand
DraftIdle ==
    /\ draft = Absent
    /\ chain = NewChain
    /\ last = [op |-> "init"]

UartDriverInit ==
    [params |-> [n \in {"UART_NUM_0", "UART_NUM_1"} |-> None],
     installed |-> [n \in {"UART_NUM_0", "UART_NUM_1"} |-> None]]

\* the registry and the WiFi adapter as constructed
RegistryInit ==
    /\ PERIPHERALS_SINGLETON = PeripheralsNew
    /\ take_results = <<>>
    /\ contexts = [c \in Contexts |-> IdleContext]
WifiInit == wifi_obj = Nothing /\ drv = DriverInit

\* the pin bank, the UART bank and the PWM as constructed
GpioInit == gpio_hw = GpioHardwareNew /\ user_pins = [p \in Pins |-> 0]
UartInit ==
    /\ uart_hw = UartHardwareNew
    /\ user_uart = [port \in UartPorts |-> 0]
    /\ uarts = [u \in {"Uart0", "Uart0Alt", "Uart1"} |-> 0]
    /\ uart_drv = UartDriverInit
PwmInit == pwm = None /\ pwm_drv = None

Init == RegistryInit /\ WifiInit /\ GpioInit /\ UartInit /\ PwmInit /\ DraftIdle

Next ==
    \/ TakeCall \/ WiFiHardwareNewCall \/ WiFiHardwareInitializeCall
    \/ WiFiHardwareDeinitializeCall \/ WiFiSetApConfigCall \/ WiFiSetStaConfigCall
    \/ WiFiStartCall \/ WiFiStopCall \/ WiFiDowngradeCall

Spec == Init /\ [][Next]_vars

\* the pins the client has moved out of the bank before it starts on a draft
BuilderClientPins == {4, 5, 12}

\* The client has just constructed one draft: an AP or STA builder, a
\* PwmInitializer, or a UartInitializer from the token of uart0, of uart0
\* in alternative mode, or of uart1.  It holds the pins BuilderClientPins.
BuilderInit ==
    /\ RegistryInit /\ WifiInit
    /\ gpio_hw = [p \in Pins |-> p \notin BuilderClientPins]
    /\ user_pins = [p \in Pins |-> IF p \in BuilderClientPins THEN 1 ELSE 0]
    /\ user_uart = [port \in UartPorts |-> 0]
    /\ uarts = [u \in {"Uart0", "Uart0Alt", "Uart1"} |-> 0]
    /\ uart_drv = UartDriverInit
    /\ pwm = None /\ pwm_drv = None
    /\ chain = NewChain
    /\ last = [op |-> "new"]
    /\ \/ draft \in {ApNew, StaNew, PwmInitializerNew} /\ uart_hw = UartHardwareNew
       \/ draft \in {UartInitializerNew("Uart0Hardware"),
                     UartInitializerNew("Uart0AltHardware")}
          /\ uart_hw = [uart0 |-> FALSE, uart1 |-> TRUE]
       \/ draft = UartInitializerNew("Uart1Hardware")
          /\ uart_hw = [uart0 |-> TRUE, uart1 |-> FALSE]

BuilderNext ==
    \/ ApBuilderSsid \/ ApBuilderPassword \/ ApBuilderAuthMode
    \/ ApBuilderChannel \/ ApBuilderHidden \/ ApBuilderMaxConnections
    \/ ApBuilderBeaconInterval \/ ApBuilderBuild
    \/ StaBuilderSsid \/ StaBuilderPassword \/ StaBuilderScanMethod
    \/ StaBuilderBssid \/ StaBuilderChannel \/ StaBuilderListenInterval
    \/ StaBuilderSortMethod \/ StaBuilderScanThreshold \/ StaBuilderBuild
    \/ UartSetBaudRateCall \/ UartSetDataBitsCall
    \/ UartSetParityCall \/ UartSetStopBitsCall \/ UartSetHwControlFlowCall
    \/ UartSetHwControlFlowRxThresholdCall \/ UartSetRxBufferSizeCall
    \/ UartSetTxBufferSizeCall \/ UartInitializeCall
    \/ UartWriteBytesCall \/ UartReadBytesCall
    \/ PwmAddChannelCall \/ PwmSetPeriodCall \/ PwmInitializeCall

SpecBuilder == BuilderInit /\ [][BuilderNext]_vars

\* The client works on the pin bank and the UART bank: it moves pins and
\* ports out of their slots, calls capture_pin and release_pin, and builds
\* and initializes UartInitializers with their default settings.
GpioNext ==
    \/ UserTakePin \/ CapturePinCall \/ ReleasePinCall
    \/ UserTakeUart \/ UartInitializerNewCall \/ UartInitializeCall

SpecGpio == Init /\ [][GpioNext]_vars

\* The client has moved every PWM pin out of the bank and has just
\* constructed a PwmInitializer.
PwmClientInit ==
    /\ RegistryInit /\ WifiInit /\ UartInit /\ PwmInit
    /\ gpio_hw = [p \in Pins |-> p \notin PwmPins]
    /\ user_pins = [p \in Pins |-> IF p \in PwmPins THEN 1 ELSE 0]
    /\ draft = PwmInitializerNew
    /\ chain = NewChain
    /\ last = [op |-> "new"]

PwmNext ==
    \/ PwmAddNextChannelCall \/ PwmSetPeriodCall \/ PwmInitializeCall
    \/ PwmDeinitializeCall

SpecPwm == PwmClientInit /\ [][PwmNext]_vars

\* The initializers the client initializes its unit from: one channel with
\* period 1000, two channels with period 10.
ReadyInitializers ==
    {PwmSetPeriod(PwmAddChannel(PwmInitializerNew, 12, 20).value, 1000).value,
     PwmSetPeriod(PwmAddChannel(PwmAddChannel(PwmInitializerNew, 12, 0).value,
                                13, 0).value, 10).value}

\* The client has initialized a unit.
PwmUnitInit ==
    /\ RegistryInit /\ WifiInit /\ UartInit
    /\ draft = Absent
    /\ chain = NewChain
    /\ \E d \in ReadyInitializers :
           /\ pwm = Some(PwmInitialize(d).result.value)
           /\ pwm_drv = Some(PwmInitialize(d).calls[1])
           /\ gpio_hw = [p \in Pins |-> p \notin PwmPins]
           /\ user_pins = [p \in Pins |->
                               IF /\ p \in PwmPins
                                  /\ \A i \in 0..(d.channels_count - 1) :
                                         d.channels[i].pin /= p
                               THEN 1 ELSE 0]
           /\ last = [op |-> "initialize", kind |-> PwmKind,
                      result |-> PwmInitialize(d).result,
                      calls |-> PwmInitialize(d).calls, before |-> d]

PwmUnitNext == PwmConfigureCall \/ PwmDeinitializeCall

SpecPwmUnit == PwmUnitInit /\ [][PwmUnitNext]_vars

\* The client works on the UART bank: it moves the port tokens out of
\* their slots, converts them, and builds and initializes UartInitializers
\* with their default settings.
UartPortsNext ==
    \/ UserTakeUart \/ UartIntoAlternativeModeCall \/ UartIntoNormalModeCall
    \/ UartInitializerNewCall \/ UartInitializeCall
    \/ UartWriteBytesCall \/ UartReadBytesCall

SpecUartPorts == Init /\ [][UartPortsNext]_vars

\* The client has just constructed a WiFiScanThresholdBuilder.
ScanThresholdInit ==
    /\ RegistryInit /\ WifiInit /\ GpioInit /\ UartInit /\ PwmInit
    /\ draft = [kind |-> ScanThresholdKind, self |-> ScanThresholdNew]
    /\ chain = NewChain
    /\ last = [op |-> "new", kind |-> ScanThresholdKind]

ScanThresholdNext ==
    \/ ScanThresholdMinSignalStrengthCall \/ ScanThresholdMinAuthModeCall
    \/ ScanThresholdBuildCall

SpecScanThreshold == ScanThresholdInit /\ [][ScanThresholdNext]_vars

\* Two execution contexts call Peripherals::take with no synchronisation.
ConcurrentTakeNext == TakeLoad \/ TakeStore

SpecConcurrentTake == Init /\ [][ConcurrentTakeNext]_vars

\* The client has moved one pin out of the bank and has just constructed
\* its PinInitializer.
PinClientInit ==
    /\ RegistryInit /\ WifiInit /\ UartInit /\ PwmInit
    /\ chain = NewChain
    /\ last = [op |-> "new", kind |-> PinKind]
    /\ \E p \in Pins :
           /\ gpio_hw = [q \in Pins |-> q /= p]
           /\ user_pins = [q \in Pins |-> 0]
           /\ draft = PinInitializerNew(p)

PinNext ==
    \/ PinEnablePullUpCall \/ PinEnablePullDownCall \/ PinConfigureAsInputCall
    \/ PinConfigureAsOutputCall \/ PinConfigureAsOpenDrainCall
    \/ PinSetInterruptModeCall \/ PinInitCall

SpecPin == PinClientInit /\ [][PinNext]_vars

---------------------------------------------------------------------------
(* Claims about the registry and the WiFi adapter, checked under Spec *)

\* C1: Peripherals::take() returns Some(OwnedPeripherals) on its first call
\* and None on every later call, whatever adapter operations come between;
\* once taken the registry stays empty.
C1_TakeOnce ==
    /\ \A i \in DOMAIN take_results :
           IF i = 1 THEN take_results[i] = Some(OwnedPeripheralsNew)
           ELSE take_results[i] = None
    /\ take_results /= <<>> => PERIPHERALS_SINGLETON.data = None

\* take() returns None after the adapter went through start, downgrade and
\* deinitialize and the client holds the WiFiPeripherals again
C1_Witness ==
    /\ last.op = "take" /\ last.result = None
    /\ wifi_obj.type = "WiFiPeripherals"
    /\ drv.mode /= "WIFI_MODE_NULL"

\* the driver mode for the configurations present: AP only gives AP, STA only
\* gives STA, both give AP+STA
ModeForConfigurations(wifi) ==
    IF wifi.sta_configuration /= None /\ wifi.ap_configuration /= None
    THEN "WIFI_MODE_APSTA"
    ELSE IF wifi.sta_configuration /= None THEN "WIFI_MODE_STA"
    ELSE "WIFI_MODE_AP"

\* C4: the mode WiFi::start() passes to esp_wifi_set_mode is AP when only an AP
\* configuration is set, STA when only a STA configuration is set, AP+STA
\* when both are set.
C4_ModeFollowsConfigurations ==
    (last.op = "start" /\ last.calls /= <<>>)
        => /\ last.calls[1].call = "esp_wifi_set_mode"
           /\ last.calls[1].args[1] = ModeForConfigurations(last.before)

\* C5: WiFi::start() with neither configuration set returns
\* ConfigurationNotSet, makes no driver call and leaves started = false.
C5_StartWithoutConfiguration ==
    (/\ last.op = "start"
     /\ last.before.ap_configuration = None
     /\ last.before.sta_configuration = None)
        => /\ last.result = Err(Variant("ConfigurationNotSet"))
           /\ last.calls = <<>>
           /\ drv = last.drv_before
           /\ ~wifi_obj.started

\* start() called on an adapter that holds no configuration
C5_Witness ==
    /\ last.op = "start"
    /\ last.before.ap_configuration = None
    /\ last.before.sta_configuration = None

\* C10: downgrade returns the WiFiHardware the adapter was built on, calls
\* esp_wifi_stop exactly when the adapter was started and leaves it not
\* started; deinitialize returns the WiFiPeripherals supplied to
\* WiFiHardware::new and calls esp_wifi_deinit exactly when the hardware was
\* initialized.
C10_LifecycleReturnsHandles ==
    /\ last.op = "downgrade"
           => /\ wifi_obj = last.before.hardware
              /\ Called(last.calls, "esp_wifi_stop") <=> last.before.started
              /\ ~last.result.value.started
              /\ ~drv.started
    /\ last.op = "deinitialize"
           => /\ wifi_obj = last.before.peripherals
              /\ wifi_obj = OwnedPeripheralsNew.wifi
              /\ Called(last.calls, "esp_wifi_deinit") <=> last.before.initialized
              /\ last.before.initialized <=> last.drv_before.initialized

\* deinitialize of an initialized hardware whose adapter had been started:
\* the whole cycle new, initialize, set config, start, downgrade, deinitialize
C10_Witness ==
    /\ last.op = "deinitialize"
    /\ last.before.initialized
    /\ drv.mode /= "WIFI_MODE_NULL"
    /\ wifi_obj.type = "WiFiPeripherals"

\* the driver accepts every step of start
AllAccepted ==
    [set_mode |-> "ESP_OK", set_config_sta |-> "ESP_OK", set_config_ap |-> "ESP_OK",
     start |-> "ESP_OK"]

\* start was rejected by the driver: it made driver calls and returned Err
StartRejected == last.op = "start" /\ ~last.result.ok /\ last.calls /= <<>>

\* C11: a start() the driver rejects leaves the adapter as it was, with its
\* configurations and with started unchanged (false for an adapter that was
\* not started); start() called again succeeds when the driver accepts every
\* step.
C11_FailedStartCanBeRetried ==
    /\ StartRejected
           => /\ wifi_obj = last.before
              /\ WiFiStart(wifi_obj, AllAccepted).result = Ok("Self")
              /\ WiFiStart(wifi_obj, AllAccepted).self.started
    /\ (/\ last.op = "start" /\ last.prev = <<"start", FALSE>>
        /\ last.calls /= <<>>
        /\ \A i \in DOMAIN last.calls : last.calls[i].answer = "ESP_OK")
           => last.result = Ok("Self") /\ wifi_obj.started

\* a start that succeeds right after a start that esp_wifi_start rejected
C11_Witness ==
    /\ last.op = "start" /\ last.prev = <<"start", FALSE>>
    /\ last.result.ok /\ wifi_obj.started
    /\ ~last.before.started
    /\ last.before.ap_configuration /= None

\* C12: a start() that fails after esp_wifi_set_mode succeeded leaves the
\* driver as it was before the call: no newly set mode, no newly applied
\* interface configuration.
C12_FailedStartLeavesDriver ==
    (last.op = "start" /\ ~last.result.ok) => drv = last.drv_before

\* C13: stop() calls esp_wifi_stop exactly when started and clears started;
\* stop or downgrade of an adapter that is not started makes no driver call
\* and changes neither the adapter nor the driver; a second stop is a no-op.
C13_StopIsIdempotent ==
    /\ last.op = "stop"
           => /\ Called(last.calls, "esp_wifi_stop") <=> last.before.started
              /\ ~wifi_obj.started
              /\ wifi_obj = [last.before EXCEPT !.started = FALSE]
              /\ WiFiStop(wifi_obj) = [self |-> wifi_obj, calls |-> <<>>]
              /\ ~last.before.started
                     => last.calls = <<>> /\ wifi_obj = last.before
                        /\ drv = last.drv_before
              /\ last.prev = <<"stop", TRUE>>
                     => last.calls = <<>> /\ wifi_obj = last.before
                        /\ drv = last.drv_before
    /\ (last.op = "downgrade" /\ ~last.before.started)
           => last.calls = <<>> /\ drv = last.drv_before
              /\ wifi_obj = last.before.hardware

\* stop called right after a stop that stopped a started adapter
C13_Witness ==
    /\ last.op = "stop" /\ last.prev = <<"stop", TRUE>>
    /\ drv.mode /= "WIFI_MODE_NULL"
    /\ last.calls = <<>>

---------------------------------------------------------------------------
(* Claims about the builders, checked under SpecBuilder *)

WiFiKinds == {ApKind, StaKind}

\* the last operation was a setter call on the draft
IsSetterCall == "recorded" \in DOMAIN last

\* the last operation was build() of a WiFi builder
IsWiFiBuild == last.op = "build"

\* the stored fields of a WiFi builder: everything but the pending error
StoredFields(builder) == [builder EXCEPT !.pending_error = None]

\* C6 as stated: build() of a chain with an invalid call returns the error of
\* the FIRST invalid call of the chain.
C6_BuildReturnsFirstError ==
    (IsWiFiBuild /\ chain.first_error /= None)
        => last.result = Err(Unwrap(chain.first_error))

\* C6 amended: build() of a chain with an invalid call returns the error of
\* the LAST invalid call of the chain (each invalid call overwrites the
\* pending error).
C6_BuildReturnsLastError ==
    (IsWiFiBuild /\ chain.first_error /= None)
        => last.result = Err(Unwrap(chain.last_error))

\* two invalid calls with different errors, then build()
C6_Witness ==
    /\ IsWiFiBuild
    /\ chain.first_error /= None
    /\ chain.last_error /= chain.first_error

\* C7: once a setter has recorded a pending error no later setter clears it:
\* the draft keeps a pending error and build() returns an error, never a
\* configuration.
C7_PendingErrorSticks ==
    chain.first_error /= None =>
        /\ draft.kind \in WiFiKinds => draft.pending_error /= None
        /\ IsWiFiBuild => ~last.result.ok

\* an invalid call, later an accepted call, then build() returning an error
C7_Witness == IsWiFiBuild /\ chain.accepted_after_error /\ ~last.result.ok

\* C8: a setter call the builder rejects changes only the pending error: every
\* stored field keeps the value earlier calls gave it.
C8_RejectedCallKeepsFields ==
    (IsSetterCall /\ last.kind \in WiFiKinds /\ last.recorded /= None)
        => StoredFields(draft) = StoredFields(last.before)

\* a rejected call on a builder that already stores an ssid
C8_Witness ==
    /\ IsSetterCall /\ last.kind \in WiFiKinds /\ last.recorded /= None
    /\ last.before.ssid /= None

---------------------------------------------------------------------------
(* Claims about pin ownership, checked under SpecGpio *)

\* the initialized UARTs whose port uses pin p
UartHolders(p) ==
    Cardinality({u \in DOMAIN uarts :
                    /\ uarts[u] > 0
                    /\ \E i \in 1..4 : UartPins(UartHardwareOf(u))[i] = p})

\* the parties holding pin p: its slot in the bank, the client, the UARTs
Owners(p) == (IF gpio_hw[p] THEN 1 ELSE 0) + user_pins[p] + UartHolders(p)

\* C2: every pin has at most one owner at any time, counting its slot in
\* GpioHardware, the tokens in the client's hands and the initialized UARTs
\* that use it.
C2_AtMostOneOwner == \A p \in Pins : Owners(p) <= 1

\* the pins of `port` whose slot is empty in the bank `hw`
HeldPortPins(hw, port) ==
    {UartPins(port)[i] : i \in 1..4} \cap {p \in Pins : ~hw[p]}

\* C3: capture_pin of a pin whose slot is already empty reports
\* AlreadyCaptured, and UartInitializer::initialize does not succeed when a
\* pin of its port is already held.
C3_CaptureOfHeldPinFails ==
    /\ (last.op = "initialize" /\ HeldPortPins(last.gpio_before, last.port) /= {})
           => ~last.result.ok
    /\ (last.op = "capture_pin" /\ last.pin \in Pins /\ ~last.gpio_before[last.pin])
           => /\ "result" \in DOMAIN last
              /\ last.result = Err("AlreadyCaptured")

\* the port token of `port` is in the client's reach: in its slot of
\* UartHardware, in the client's hands, or inside a UartInitializer
PortAvailable(port) ==
    \/ user_uart[port] > 0
    \/ draft.kind = UartKind /\ draft.port = port
    \/ port = "Uart0Hardware" /\ uart_hw.uart0
    \/ port = "Uart1Hardware" /\ uart_hw.uart1

\* C15: after UartInitializer::initialize returned an error the caller still
\* has the port: its token, or the initializer that holds it.
C15_FailedInitializeKeepsPort ==
    (last.op = "initialize" /\ ~last.result.ok) => PortAvailable(last.port)

\* C16: when UartInitializer::initialize returns an error every slot of
\* GpioHardware is as it was before the call.
C16_FailedInitializeCapturesNothing ==
    (last.op = "initialize" /\ ~last.result.ok) => gpio_hw = last.gpio_before

\* uart_driver_install rejected the initialization of uart0 while all four
\* pins of the port were in the bank
C16_Witness ==
    /\ last.op = "initialize" /\ ~last.result.ok
    /\ Len(last.calls) = 2
    /\ last.port = "Uart0Hardware"
    /\ HeldPortPins(last.gpio_before, last.port) = {}

\* C18: release_pin leaves the pin's slot present and every other slot as it
\* was; a capture_pin after it takes the pin out again; release_pin of a pin
\* whose slot is present changes nothing, and a second release changes
\* nothing.
C18_ReleaseRefillsSlot ==
    (last.op = "release_pin" /\ last.pin \in Pins)
        => /\ gpio_hw[last.pin]
           /\ \A q \in Pins \ {last.pin} : gpio_hw[q] = last.gpio_before[q]
           /\ last.gpio_before[last.pin] => gpio_hw = last.gpio_before
           /\ ReleasePin(gpio_hw, last.pin) = gpio_hw
           /\ ~CapturePin(gpio_hw, last.pin)[last.pin]
           /\ ReleasePin(CapturePin(gpio_hw, last.pin), last.pin) = gpio_hw

\* release_pin of a pin whose slot was empty
C18_Witness ==
    /\ last.op = "release_pin" /\ last.pin \in Pins
    /\ ~last.gpio_before[last.pin]
    /\ gpio_hw[last.pin]

\* C19: capture_pin and release_pin of PhantomPin leave every slot as it
\* was; PhantomPin has pin mask 0 and is no slot of GpioHardware; an
\* initialize takes out of the bank only the wired pins of its port.
C19_PhantomPinTouchesNothing ==
    /\ GetPinMask(PhantomPin) = 0
    /\ PhantomPin \notin DOMAIN gpio_hw
    /\ (last.op \in {"capture_pin", "release_pin"} /\ last.pin = PhantomPin)
           => gpio_hw = last.gpio_before
    /\ (last.op = "initialize" /\ last.result.ok)
           => \A p \in Pins :
                  gpio_hw[p] = (/\ last.gpio_before[p]
                                /\ \A i \in 1..4 : UartPins(last.port)[i] /= p)

\* uart1, whose Rx, Cts and Rts are PhantomPin, was initialized: only its Tx
\* pin left the bank
C19_Witness ==
    /\ last.op = "initialize" /\ last.result.ok
    /\ last.port = "Uart1Hardware"
    /\ last.gpio_before[2] /\ ~gpio_hw[2]
    /\ gpio_hw[3] = last.gpio_before[3]

---------------------------------------------------------------------------
(* A claim about the driver's initialization, checked under Spec *)

\* C39: esp_wifi_init is called only on an uninitialized driver and
\* esp_wifi_deinit only on an initialized one, so the two calls alternate.
C39_InitDeinitAlternate ==
    "drv_before" \in DOMAIN last
        => /\ Called(last.calls, "esp_wifi_init") => ~last.drv_before.initialized
           /\ Called(last.calls, "esp_wifi_deinit") => last.drv_before.initialized

---------------------------------------------------------------------------
(* Claims about the PWM unit, checked under SpecPwm *)

\* C17: after Pwm::deinitialize none of the pins the unit was built from
\* remains held: each is back in its slot of GpioHardware or in the
\* client's hands.
C17_DeinitializeReleasesPins ==
    (last.op = "deinitialize" /\ last.kind = "Pwm")
        => \A i \in 0..(last.drv_before.channel_num - 1) :
               \/ gpio_hw[last.drv_before.pins[i]]
               \/ user_pins[last.drv_before.pins[i]] > 0

\* C20: add_channel returns Ok exactly while fewer than 8 channels are
\* stored and TooManyChannels otherwise; channels_count never exceeds 8,
\* equals the number of accepted add_channel calls, and channel i holds the
\* pin and duty of the i-th accepted call.
C20_ChannelsFollowCalls ==
    /\ draft.kind = PwmKind
           => /\ draft.channels_count <= MAX_PWM_CHANNELS
              /\ draft.channels_count = Len(chain.accepted)
              /\ \A i \in 1..Len(chain.accepted) :
                     draft.channels[i - 1] = chain.accepted[i]
    /\ last.op = "add_channel"
           => /\ last.call_site.ok <=> last.before.channels_count < 8
              /\ ~last.call_site.ok => last.call_site = Err("TooManyChannels")
    /\ Len(chain.accepted) <= 8

\* the ninth add_channel on an initializer that holds 8 channels was refused
C20_Witness ==
    /\ last.op = "add_channel"
    /\ last.call_site = Err("TooManyChannels")
    /\ last.before.channels_count = 8
    /\ Len(chain.accepted) = 8

\* PwmInitializer::initialize was the last operation
IsPwmInitialize == last.op = "initialize" /\ last.kind = PwmKind

\* C21: set_period(p) fails with TooShortPeriod exactly when p < 10, so a
\* stored period and the period of an initialized unit are >= 10;
\* initialize on an initializer with no period stored fails with
\* PeriodNotSet, makes no driver call and hands the initializer back
\* unchanged.
C21_PeriodAtLeast10 ==
    /\ (last.op = "set_period" /\ last.kind = PwmKind)
           => /\ last.call_site = Err("TooShortPeriod") <=> last.arg[1] < 10
              /\ last.call_site.ok <=> last.arg[1] >= 10
              /\ last.call_site.ok
                     => draft = [last.before EXCEPT !.period = Some(last.arg[1])]
    /\ (draft.kind = PwmKind /\ draft.period /= None) => Unwrap(draft.period) >= 10
    /\ pwm /= None
           => /\ Unwrap(pwm).configuration.period >= 10
              /\ Unwrap(pwm_drv).period >= 10
    /\ (IsPwmInitialize /\ last.before.period = None)
           => /\ last.result = Err("PeriodNotSet")
              /\ last.calls = <<>>
              /\ draft = last.before

\* initialize was refused on an initializer that holds two channels and no
\* period, and no unit exists
C21_Witness ==
    /\ IsPwmInitialize /\ last.before.period = None
    /\ last.before.channels_count = 2
    /\ last.result = Err("PeriodNotSet") /\ pwm = None

\* C22: initialize on an initializer with a period fails with
\* DutyExceedsPeriod, handing the initializer back and calling no driver
\* function, exactly when the duty of some added channel exceeds the period;
\* otherwise it calls pwm_init once with the period, the channel count and
\* the duties and pins of the added channels, and yields a Pwm with the
\* initializer's channel count and period.
C22_InitializeChecksDuties ==
    (IsPwmInitialize /\ last.before.period /= None)
        => LET period == Unwrap(last.before.period)
               added == chain.accepted
               exceeds == \E i \in 1..Len(added) : added[i].duty > period
           IN  /\ last.result = Err("DutyExceedsPeriod") <=> exceeds
               /\ exceeds => last.calls = <<>> /\ draft = last.before
               /\ ~exceeds
                      => /\ last.result.ok
                         /\ Len(last.calls) = 1
                         /\ last.calls[1].call = "pwm_init"
                         /\ last.calls[1].period = period
                         /\ last.calls[1].channel_num = Len(added)
                         /\ \A i \in 1..Len(added) :
                                /\ last.calls[1].duties[i - 1] = added[i].duty
                                /\ last.calls[1].pins[i - 1] = added[i].pin
                         /\ last.result.value.configuration.channel_count
                                = last.before.channels_count
                         /\ last.result.value.configuration.period = period
                         /\ pwm = Some(last.result.value)

\* initialize was refused because the second channel's duty exceeds the period
C22_Witness ==
    /\ IsPwmInitialize /\ last.before.period /= None
    /\ last.result = Err("DutyExceedsPeriod")
    /\ Len(chain.accepted) = 2
    /\ chain.accepted[1].duty <= Unwrap(last.before.period)
    /\ chain.accepted[2].duty > Unwrap(last.before.period)

---------------------------------------------------------------------------
(* Claims about PwmConfiguration, checked under SpecPwmUnit *)

\* a method of PwmConfiguration that takes a channel was the last operation
IsChannelCall ==
    /\ last.kind = "PwmConfiguration"
    /\ last.op \in {"set_stop_level", "set_inverted_state", "set_duty", "set_phase"}

\* C23: set_stop_level, set_inverted_state, set_duty and set_phase with
\* channel >= channel_count return InvalidChannel without calling the
\* driver; set_phase with a phase outside -180..=180 returns InvalidPhase;
\* set_duty with duty > period returns DutyExceedsPeriod.
C23_ChannelChecked ==
    /\ (IsChannelCall /\ last.arg[1] >= last.before.channel_count)
           => /\ last.result = Err("InvalidChannel")
              /\ last.calls = <<>>
    /\ (IsChannelCall /\ last.op = "set_phase"
        /\ last.arg[1] < last.before.channel_count
        /\ last.arg[2] \notin -180..180)
           => last.result = Err("InvalidPhase")
    /\ (IsChannelCall /\ last.op = "set_duty"
        /\ last.arg[1] < last.before.channel_count
        /\ last.arg[2] > last.before.period)
           => last.result = Err("DutyExceedsPeriod")

\* C38: on an initialized PWM every channel's programmed duty is <= the
\* current period after any set_period and set_duty calls, and a failed
\* set_period leaves the stored period as it was.
C38_DutyWithinPeriod ==
    /\ pwm /= None
           => \A i \in 0..(Unwrap(pwm).configuration.channel_count - 1) :
                  Unwrap(pwm_drv).duties[i] <= Unwrap(pwm).configuration.period
    /\ (last.kind = "PwmConfiguration" /\ last.op = "set_period" /\ ~last.result.ok)
           => Unwrap(pwm).configuration.period = last.before.period

---------------------------------------------------------------------------
(* Claims about the AP and STA builders' fields, checked under SpecBuilder *)

\* the last operation was the setter `op` of the builder `kind`
IsCall(kind, op) == IsSetterCall /\ last.kind = kind /\ last.op = op

\* the bytes of `array` from position n + 1 on are all zero
ZeroFrom(array, n) == \A i \in (n + 1)..Len(array) : array[i] = 0

C25_PasswordTerminated ==
    (IsSetterCall /\ last.kind \in WiFiKinds /\ last.op = "password")
        => /\ last.recorded = Some("TooLongPassword") <=> Len(last.arg[1]) >= 64
           /\ last.recorded = None
                  => /\ Len(last.arg[1]) <= 63
                     /\ Unwrap(draft.password)[Len(last.arg[1]) + 1] = 0

\* build() of the AP builder was called on a builder with no pending error
ApBuildCalled == IsWiFiBuild /\ last.kind = ApKind /\ last.before.pending_error = None

\* C26: AP build() with no pending error returns SsidNotSet when no ssid is
\* stored and the network is not hidden, else AuthModeNotSet when no auth
\* mode is stored, else PasswordNotSet when the auth mode is not open and no
\* password is stored, else Ok; a pending error comes before all of these;
\* auth_mode(Wep) records AuthModeNotSupported and WEP is never stored.
C26_ApBuildOrder ==
    /\ (IsWiFiBuild /\ last.kind = ApKind /\ last.before.pending_error /= None)
           => last.result = Err(Unwrap(last.before.pending_error))
    /\ ApBuildCalled
           => LET b == last.before
                  no_ssid == b.ssid = None /\ b.ssid_hidden = 0
                  no_auth == b.auth_mode = None
                  no_password == /\ b.auth_mode /= None
                                 /\ b.auth_mode /= Some("WIFI_AUTH_OPEN")
                                 /\ b.password = None
              IN  /\ last.result = Err("SsidNotSet") <=> no_ssid
                  /\ last.result = Err("AuthModeNotSet") <=> ~no_ssid /\ no_auth
                  /\ last.result = Err("PasswordNotSet")
                         <=> ~no_ssid /\ ~no_auth /\ no_password
                  /\ last.result.ok <=> ~no_ssid /\ ~no_auth /\ ~no_password
    /\ IsCall(ApKind, "auth_mode")
           => /\ last.recorded = Some("AuthModeNotSupported") <=> last.arg[1] = "Wep"
              /\ last.arg[1] = "Wep" => draft.auth_mode = last.before.auth_mode
              /\ last.arg[1] /= "Wep"
                     => draft.auth_mode = Some(hal_to_sys_auth_mode(last.arg[1]))
    /\ draft.kind = ApKind
           => draft.auth_mode \in
                  {None} \cup {Some(hal_to_sys_auth_mode(m)) : m \in WiFiAuthMode \ {"Wep"}}

\* build() of a hidden network with a non-open auth mode and no password
C26_Witness ==
    /\ ApBuildCalled
    /\ last.before.ssid = None /\ last.before.ssid_hidden = 1
    /\ last.result = Err("PasswordNotSet")

\* C27: every AP configuration a successful build() produces has channel in
\* 1..=14, beacon interval in 100..=60000 and max connections in 1..=4.
C27_ApConfigurationInRange ==
    (IsWiFiBuild /\ last.kind = ApKind /\ last.result.ok)
        => /\ last.result.value.ap.channel \in 1..14
           /\ last.result.value.ap.beacon_interval \in 100..60000
           /\ last.result.value.ap.max_connection \in 1..4

\* C28: an AP chain with no invalid call that stores an ssid, an auth mode
\* and a password builds successfully; when the chain made only these three
\* calls the configuration carries the values set and the defaults
\* max_connection = 4, beacon_interval = 100, not hidden; so does the
\* documented example.
C28_ValidApChainBuilds ==
    /\ (/\ IsWiFiBuild /\ last.kind = ApKind /\ chain.first_error = None
        /\ last.before.ssid /= None /\ last.before.auth_mode /= None
        /\ last.before.password /= None)
           => /\ last.result.ok
              /\ chain.calls = 3
                     => last.result.value.ap =
                            [ssid |-> Unwrap(last.before.ssid),
                             password |-> Unwrap(last.before.password),
                             ssid_len |-> last.before.ssid_len,
                             channel |-> 0,
                             authmode |-> Unwrap(last.before.auth_mode),
                             ssid_hidden |-> 0,
                             max_connection |-> 4,
                             beacon_interval |-> 100]
    /\ ApBuild(ApPassword(ApAuthMode(ApSsid(ApNew, Str(13, 97)), "WpaWpa2Psk"),
                          Str(10, 112)))
           = Ok([ap |-> [ssid |-> Str(13, 97) \o Str(19, 0),
                         password |-> Str(10, 112) \o Str(54, 0),
                         ssid_len |-> 13,
                         channel |-> 0,
                         authmode |-> "WIFI_AUTH_WPA_WPA2_PSK",
                         ssid_hidden |-> 0,
                         max_connection |-> 4,
                         beacon_interval |-> 100]])

\* the documented example was chained and built
C28_Witness ==
    /\ IsWiFiBuild /\ last.kind = ApKind /\ last.result.ok
    /\ chain.calls = 3 /\ chain.first_error = None
    /\ last.result.value \in ApConfigurations

\* C29: STA build() with no pending error fails with SsidNotSet exactly when
\* neither ssid nor bssid is stored, else with PasswordNotSet exactly when no
\* password is stored and the scan threshold's auth mode is not open (no
\* threshold counts as open), else succeeds with bssid_set telling whether a
\* bssid was given.
C29_StaBuildOrder ==
    (IsWiFiBuild /\ last.kind = StaKind /\ last.before.pending_error = None)
        => LET b == last.before
               no_target == b.ssid = None /\ b.bssid = None
               needs_password ==
                   /\ b.scan_threshold /= None
                   /\ Unwrap(b.scan_threshold).authmode /= "WIFI_AUTH_OPEN"
               no_password == needs_password /\ b.password = None
           IN  /\ last.result = Err("SsidNotSet") <=> no_target
               /\ last.result = Err("PasswordNotSet") <=> ~no_target /\ no_password
               /\ last.result.ok <=> ~no_target /\ ~no_password
               /\ last.result.ok
                      => /\ last.result.value.sta.bssid_set <=> b.bssid /= None
                         /\ b.scan_threshold = None
                                => last.result.value.sta.threshold.authmode
                                       = "WIFI_AUTH_OPEN"

\* a station with a bssid, no ssid, no password and no threshold was built
C29_Witness ==
    /\ IsWiFiBuild /\ last.kind = StaKind /\ last.result.ok
    /\ last.before.ssid = None /\ last.before.password = None
    /\ last.before.scan_threshold = None
    /\ last.result.value.sta.bssid_set

\* C30: every STA configuration a successful build() produces has a listen
\* interval > 0, and 3 when listen_interval() stored nothing.
C30_StaListenInterval ==
    (IsWiFiBuild /\ last.kind = StaKind /\ last.result.ok)
        => /\ last.result.value.sta.listen_interval > 0
           /\ last.before.listen_interval = StaNew.listen_interval
                  => last.result.value.sta.listen_interval = 3

---------------------------------------------------------------------------
(* Claims about the UartInitializer, checked under SpecBuilder *)

\* UartInitializer::initialize was the last operation
IsUartInitialize == last.op = "initialize" /\ last.kind = UartKind

\* C31: set_baud_rate(b) fails with InvalidBaudRate exactly when b < 300 or
\* b > 608000; a failed call leaves the initializer as it was, an accepted
\* one stores b; the baud rate handed to the driver by initialize is within
\* 300..=608000, and 9600 when no call was made.
C31_BaudRateInRange ==
    /\ IsCall(UartKind, "set_baud_rate")
           => /\ last.call_site = Err("InvalidBaudRate")
                     <=> (last.arg[1] < 300 \/ last.arg[1] > 608000)
              /\ last.call_site.ok <=> last.arg[1] \in 300..608000
              /\ ~last.call_site.ok => draft = last.before
              /\ last.call_site.ok
                     => draft = [last.before EXCEPT !.config.baud_rate = last.arg[1]]
    /\ draft.kind = UartKind
           => /\ draft.config.baud_rate \in 300..608000
              /\ chain.calls = 0 => draft.config.baud_rate = 9600
    /\ IsUartInitialize
           => /\ last.calls[1].call = "uart_param_config"
              /\ last.calls[1].config.baud_rate \in 300..608000
              /\ last.calls[1].config.baud_rate = last.before.config.baud_rate

\* a port was initialized with the highest baud rate, 608000
C31_Witness ==
    /\ IsUartInitialize /\ last.result.ok
    /\ last.calls[1].config.baud_rate = 608000

\* C32: the RX buffer size of a UartInitializer is >= 256 for Uart0 and
\* Uart0Alt and 0 for Uart1, and its TX buffer size is 0 or >= 256;
\* set_rx_buffer_size(n) fails with InvalidRxBufferSize exactly when n < 256
\* and set_tx_buffer_size(n) with InvalidTxBufferSize exactly when
\* 0 < n < 256; a failed call leaves the initializer as it was.
C32_BufferSizes ==
    /\ draft.kind = UartKind
           => /\ draft.port \in {"Uart0Hardware", "Uart0AltHardware"}
                     => draft.rx_buffer_size >= 256
              /\ draft.port = "Uart1Hardware" => draft.rx_buffer_size = 0
              /\ draft.tx_buffer_size = 0 \/ draft.tx_buffer_size >= 256
    /\ IsCall(UartKind, "set_rx_buffer_size")
           => /\ last.call_site = Err("InvalidRxBufferSize") <=> last.arg[1] < 256
              /\ last.call_site.ok <=> last.arg[1] >= 256
              /\ ~last.call_site.ok => draft = last.before
              /\ last.call_site.ok => draft.rx_buffer_size = last.arg[1]
    /\ IsCall(UartKind, "set_tx_buffer_size")
           => /\ last.call_site = Err("InvalidTxBufferSize")
                     <=> (0 < last.arg[1] /\ last.arg[1] < 256)
              /\ last.call_site.ok <=> (last.arg[1] = 0 \/ last.arg[1] >= 256)
              /\ ~last.call_site.ok => draft = last.before
              /\ last.call_site.ok => draft.tx_buffer_size = last.arg[1]
    /\ IsUartInitialize
           => (Len(last.calls) = 2
                  => /\ last.calls[2].rx = last.before.rx_buffer_size
                     /\ last.calls[2].tx = last.before.tx_buffer_size)

\* set_tx_buffer_size(255) was refused on an initializer whose TX buffer
\* size is 256
C32_Witness ==
    /\ IsCall(UartKind, "set_tx_buffer_size")
    /\ last.arg[1] = 255 /\ last.call_site = Err("InvalidTxBufferSize")
    /\ last.before.tx_buffer_size = 256 /\ draft.tx_buffer_size = 256

\* C33: set_hw_control_flow and set_hw_control_flow_rx_threshold are called
\* only on the initializer of Uart0 in normal mode, set_rx_buffer_size and
\* read_bytes never on Uart1; flow_ctrl stays disabled and
\* rx_flow_ctrl_thresh stays 0 for Uart0Alt and Uart1, in the initializer
\* and in the configuration initialize hands to the driver.
C33_CapabilityGating ==
    /\ IsCall(UartKind, "set_hw_control_flow") => last.before.port = "Uart0Hardware"
    /\ IsCall(UartKind, "set_hw_control_flow_rx_threshold")
           => last.before.port = "Uart0Hardware"
    /\ IsCall(UartKind, "set_rx_buffer_size") => last.before.port /= "Uart1Hardware"
    /\ last.op = "read_bytes" => last.uart /= "Uart1"
    /\ (draft.kind = UartKind /\ draft.port \in {"Uart0AltHardware", "Uart1Hardware"})
           => /\ draft.config.flow_ctrl = "UART_HW_FLOWCTRL_DISABLE"
              /\ draft.config.rx_flow_ctrl_thresh = 0
    /\ (IsUartInitialize /\ last.port \in {"Uart0AltHardware", "Uart1Hardware"})
           => /\ last.calls[1].config.flow_ctrl = "UART_HW_FLOWCTRL_DISABLE"
              /\ last.calls[1].config.rx_flow_ctrl_thresh = 0

\* Uart0Alt was initialized after MaxCalls setter calls and then read from
C33_Witness ==
    /\ last.op = "read_bytes" /\ last.uart = "Uart0Alt"
    /\ chain.calls = MaxCalls

---------------------------------------------------------------------------
(* Claims about the PinInitializer, checked under SpecPin *)

\* a setter of PinInitializer was the last operation
IsPinSetter == last.kind = PinKind /\ last.op \notin {"new", "init"}

\* the field of gpio_config_t a setter of PinInitializer assigns
OwnField(op) ==
    CASE op = "enable_pull_up" -> "pull_up_en"
      [] op = "enable_pull_down" -> "pull_down_en"
      [] op = "set_interrupt_mode" -> "intr_type"
      [] OTHER -> "mode"

\* C34: enable_pull_down is called only on Gpio16, and enable_pull_up,
\* configure_as_open_drain and set_interrupt_mode only on other pins; so
\* pull-down stays disabled for every pin but Gpio16, and pull-up,
\* open-drain mode and interrupts stay disabled for Gpio16; a setter
\* changes only its own field, and the pin mask stays 1 << pin.
C34_PinCapabilityGating ==
    /\ (IsPinSetter /\ last.op = "enable_pull_down") => last.before.pin = 16
    /\ (IsPinSetter /\ last.op \in {"enable_pull_up", "configure_as_open_drain",
                                    "set_interrupt_mode"})
           => last.before.pin /= 16
    /\ draft.kind = PinKind
           => /\ draft.pin /= 16 => draft.config.pull_down_en = "GPIO_PULLDOWN_DISABLE"
              /\ draft.pin = 16
                     => /\ draft.config.pull_up_en = "GPIO_PULLUP_DISABLE"
                        /\ draft.config.mode /= "GPIO_MODE_OUTPUT_OD"
                        /\ draft.config.intr_type = "GPIO_INTR_DISABLE"
              /\ draft.config.pin_bit_mask = 2 ^ draft.pin
    /\ IsPinSetter
           => /\ draft.pin = last.before.pin
              /\ \A f \in DOMAIN draft.config \ {OwnField(last.op)} :
                     draft.config[f] = last.before.config[f]
    /\ (last.kind = PinKind /\ last.op = "init")
           => last.calls = <<[call |-> "gpio_config", config |-> last.before.config]>>

\* Gpio16 was configured with MaxCalls calls, pull-down among them, and
\* initialized
C34_Witness ==
    /\ last.kind = PinKind /\ last.op = "init"
    /\ last.before.pin = 16 /\ chain.calls = MaxCalls
    /\ last.before.config.pull_down_en = "GPIO_PULLDOWN_ENABLE"

---------------------------------------------------------------------------
(* Claims about concurrent calls of Peripherals::take, checked under       *)
(* SpecConcurrentTake                                                      *)

\* the completed take() calls: <<context, index among the context's calls>>
CompletedTakes ==
    {t \in Contexts \X (1..MaxTakes) : t[2] <= Len(contexts[t[1]].results)}

TakeOutcome(t) == contexts[t[1]].results[t[2]]

\* the completed take() calls that returned Some(OwnedPeripherals)
SuccessfulTakes == {t \in CompletedTakes : TakeOutcome(t).result /= None}

\* C35: take-once holds for the calls of take() that ran with no other
\* context inside take(): when two calls both returned Some, neither ran
\* alone, and they are first calls of different contexts; with the load and
\* the store of Option::take as separate steps two concurrent first calls
\* can both return Some(OwnedPeripherals).
C35_TakeOnceNeedsAtomicTake ==
    /\ \A t, u \in SuccessfulTakes :
           t /= u => /\ ~TakeOutcome(t).alone /\ ~TakeOutcome(u).alone
                     /\ t[1] /= u[1]
                     /\ t[2] = 1 /\ u[2] = 1
    /\ \A t \in SuccessfulTakes : TakeOutcome(t).result = Some(OwnedPeripheralsNew)
    /\ (\A t \in CompletedTakes : TakeOutcome(t).alone)
           => Cardinality(SuccessfulTakes) <= 1
    /\ CompletedTakes /= {} => PERIPHERALS_SINGLETON.data = None

\* both contexts obtained Some(OwnedPeripherals) from their first call
C35_Witness ==
    \A c \in Contexts :
        /\ Len(contexts[c].results) >= 1
        /\ contexts[c].results[1].result = Some(OwnedPeripheralsNew)

---------------------------------------------------------------------------
(* Claims about the WiFiScanThresholdBuilder, checked under                *)
(* SpecScanThreshold                                                       *)

\* WiFiScanThresholdBuilder::build was the last operation
IsScanThresholdBuild == last.kind = ScanThresholdKind /\ last.op = "build"

\* C36: no chain of min_signal_strength and min_auth_mode calls followed by
\* build() reaches the unreachable!() arm of hal_to_sys::auth_mode: build()
\* never panics.
C36_BuildNeverPanics == IsScanThresholdBuild => last.result.type /= "panic"

\* C37: build() on a builder whose pending error is InvalidRssi does not
\* produce a WiFiScanThreshold.
C37_BuildSurfacesInvalidRssi ==
    (IsScanThresholdBuild /\ last.before.pending_error = Some("InvalidRssi"))
        => last.result.type /= "WiFiScanThreshold"

---------------------------------------------------------------------------
(* A claim about the UART port tokens, checked under SpecUartPorts *)

\* the live hardware tokens of the physical port `number`: the one in its
\* slot of UartHardware and those in the client's hands
PortTokens(number) ==
    (IF number = "Uart0" /\ uart_hw.uart0 THEN 1 ELSE 0)
    + (IF number = "Uart1" /\ uart_hw.uart1 THEN 1 ELSE 0)
    + (IF number = "Uart0"
       THEN user_uart["Uart0Hardware"] + user_uart["Uart0AltHardware"]
       ELSE user_uart["Uart1Hardware"])

\* C40: at most one live hardware token exists per physical UART port, and
\* into_alternative_mode and into_normal_mode return a token of the port
\* the consumed token stood for.
C40_OneTokenPerPort ==
    /\ \A number \in {"Uart0", "Uart1"} : PortTokens(number) <= 1
    /\ last.op \in {"into_alternative_mode", "into_normal_mode"}
           => UART_PORT_NUM(last.result) = UART_PORT_NUM(last.port)

====
